---- MODULE Spec2Model ----
(***************************************************************************)
(* Appointment scheduling engine of the E-Booklet backend                  *)
(* (backend/app/routes/appointments.py).                                   *)
(*                                                                         *)
(* The document store's `appointments` collection is the sequence          *)
(* `appointments` (a document's id is its position), the `users`           *)
(* collection is the fixed table UserRole.  Date and time strings are      *)
(* sequences of one-character strings, so that parsing, whitespace         *)
(* stripping and the two accepted date formats are computed, not assumed.  *)
(* Instants are minutes since 0001-01-01 00:00 (datetime.toordinal * 1440  *)
(* plus the minute of the day).                                            *)
(***************************************************************************)
EXTENDS Integers, Sequences, FiniteSets, TLC

VARIABLES
    appointments,   \* the `appointments` collection: document id -> document
    lastResp,       \* the last request served to completion and its response
    calls,          \* book requests in flight, by worker: position and locals
    served,         \* number of requests served to completion so far
    settings,       \* the deployment: which provider settings are present
    notify          \* the notification steps taken by the last request served

vars == <<appointments, lastResp, calls, served, settings, notify>>

(***************************************************************************)
(* Bounds of the model.                                                    *)
(***************************************************************************)
MaxAppts == 2
\* Requests served one after the other in a run of Spec.
MaxRequests == 4

(***************************************************************************)
(* Strings used by requests.                                               *)
(***************************************************************************)
IsoDate == <<"2","0","2","5","-","1","1","-","0","3">>
LongDate == <<"N","o","v","e","m","b","e","r"," ","0","3",","," ","2","0","2","5">>
BadDate == <<"0","3","/","1","1","/","2","0","2","5">>
T1000 == <<"1","0",":","0","0"," ","A","M">>
T1015 == <<" ","1","0",":","1","5"," ","A","M">>
T1030 == <<"1","0",":","3","0"," ","A","M">>
BadTime == <<"2","5",":","0","0">>

Digits == {"0","1","2","3","4","5","6","7","8","9"}

DigitVal(c) ==
    CASE c = "0" -> 0 [] c = "1" -> 1 [] c = "2" -> 2 [] c = "3" -> 3
      [] c = "4" -> 4 [] c = "5" -> 5 [] c = "6" -> 6 [] c = "7" -> 7
      [] c = "8" -> 8 [] c = "9" -> 9

IsDigits(s) == \A i \in 1..Len(s) : s[i] \in Digits

RECURSIVE NumVal(_)
NumVal(s) == IF s = <<>> THEN 0
             ELSE 10 * NumVal(SubSeq(s, 1, Len(s) - 1)) + DigitVal(s[Len(s)])

\* The value returned for a string the parser refuses (ValueError).
Invalid == -1

\* Position of the first occurrence of character c in s, 0 when absent.
IndexOf(s, c) ==
    IF \E i \in 1..Len(s) : s[i] = c
    THEN CHOOSE i \in 1..Len(s) : s[i] = c /\ \A j \in 1..(i - 1) : s[j] # c
    ELSE 0

Has(s, c) == IndexOf(s, c) # 0
\* The parts of s before and after the first occurrence of c.
Before(s, c) == SubSeq(s, 1, IndexOf(s, c) - 1)
After(s, c) == SubSeq(s, IndexOf(s, c) + 1, Len(s))

\* A run of digits of lo to hi characters (\d{lo,hi}).
IsNumber(s, lo, hi) == Len(s) \in lo..hi /\ IsDigits(s)

Whitespace == {" "}

\* str.strip(): drop leading and trailing whitespace.
RECURSIVE Strip(_)
Strip(s) ==
    IF s = <<>> THEN s
    ELSE IF s[1] \in Whitespace THEN Strip(Tail(s))
    ELSE IF s[Len(s)] \in Whitespace THEN Strip(SubSeq(s, 1, Len(s) - 1))
    ELSE s

\* Leading whitespace only (the \s+ a blank of a strptime format stands for).
RECURSIVE LStrip(_)
LStrip(s) == IF s # <<>> /\ s[1] \in Whitespace THEN LStrip(Tail(s)) ELSE s

IsLeap(y) == (y % 4 = 0) /\ ((y % 100 # 0) \/ (y % 400 = 0))

DaysInMonth(y, m) ==
    IF m = 2 THEN (IF IsLeap(y) THEN 29 ELSE 28)
    ELSE IF m \in {4, 6, 9, 11} THEN 30 ELSE 31

RECURSIVE DaysBeforeMonth(_, _)
DaysBeforeMonth(y, m) ==
    IF m = 1 THEN 0 ELSE DaysBeforeMonth(y, m - 1) + DaysInMonth(y, m - 1)

\* datetime.date(y, m, d).toordinal(), Invalid when the date does not exist.
Ordinal(y, m, d) ==
    IF y < 1 \/ m < 1 \/ m > 12 \/ d < 1 \/ d > DaysInMonth(y, m) THEN Invalid
    ELSE 365 * (y - 1) + ((y - 1) \div 4) - ((y - 1) \div 100) + ((y - 1) \div 400)
         + DaysBeforeMonth(y, m) + d

\* The date of the fields %Y, %m, %d once the string is split; ok: both
\* separators were found.
IsoDateOf(ys, ms, ds, ok) ==
    IF ~ok \/ ~IsNumber(ys, 4, 4) \/ ~IsNumber(ms, 1, 2) \/ ~IsNumber(ds, 1, 2)
    THEN Invalid
    ELSE Ordinal(NumVal(ys), NumVal(ms), NumVal(ds))

\* strptime(date_str, "%Y-%m-%d")
ParseIsoDate(s) ==
    IsoDateOf(Before(s, "-"), Before(After(s, "-"), "-"), After(After(s, "-"), "-"),
              Has(s, "-") /\ Has(After(s, "-"), "-"))

MonthNames ==
    << <<"J","a","n","u","a","r","y">>,
       <<"F","e","b","r","u","a","r","y">>,
       <<"M","a","r","c","h">>,
       <<"A","p","r","i","l">>,
       <<"M","a","y">>,
       <<"J","u","n","e">>,
       <<"J","u","l","y">>,
       <<"A","u","g","u","s","t">>,
       <<"S","e","p","t","e","m","b","e","r">>,
       <<"O","c","t","o","b","e","r">>,
       <<"N","o","v","e","m","b","e","r">>,
       <<"D","e","c","e","m","b","e","r">> >>

IsMonthName(name) == \E m \in 1..12 : MonthNames[m] = name
MonthOf(name) == CHOOSE m \in 1..12 : MonthNames[m] = name

\* The date of the fields %B, %d and what follows the comma; ok: the blank
\* and the comma were found.
LongDateOf(name, ds, after, ok) ==
    IF ~ok \/ ~IsMonthName(name) \/ ~IsNumber(ds, 1, 2) THEN Invalid
    ELSE IF LStrip(after) = after \/ ~IsNumber(LStrip(after), 4, 4) THEN Invalid
    ELSE Ordinal(NumVal(LStrip(after)), MonthOf(name), NumVal(ds))

\* strptime(date_str, "%B %d, %Y")
ParseLongDate(s) ==
    LongDateOf(Before(s, " "), Before(LStrip(After(s, " ")), ","),
               After(LStrip(After(s, " ")), ","),
               Has(s, " ") /\ Has(LStrip(After(s, " ")), ","))

AM == {<<"A","M">>, <<"a","m">>}
PM == {<<"P","M">>, <<"p","m">>}

\* The minute of the day of the fields %I, %M, %p; ok: the colon and the
\* blank were found.
TimeOf(hs, mins, p, ok) ==
    IF ~ok \/ ~IsNumber(hs, 1, 2) \/ ~IsNumber(mins, 1, 2) THEN Invalid
    ELSE IF NumVal(hs) \notin 1..12 \/ NumVal(mins) > 59 \/ p \notin AM \cup PM THEN Invalid
    ELSE ((NumVal(hs) % 12) + (IF p \in PM THEN 12 ELSE 0)) * 60 + NumVal(mins)

\* strptime(time_str.strip(), "%I:%M %p")
ParseTime(s) ==
    TimeOf(Before(Strip(s), ":"), Before(After(Strip(s), ":"), " "),
           LStrip(After(After(Strip(s), ":"), " ")),
           Has(Strip(s), ":") /\ Has(After(Strip(s), ":"), " "))

\* Lines 67-71: the first format that parses.
FirstValid(first, second) == IF first # Invalid THEN first ELSE second

\* datetime.combine(date, time), in minutes.
Combine(day, tod) ==
    IF day = Invalid \/ tod = Invalid THEN Invalid ELSE day * 1440 + tod

\* parse_time_slot: the instant in minutes, Invalid for a ValueError.
parse_time_slot(date_str, time_str) ==
    Combine(FirstValid(ParseIsoDate(date_str), ParseLongDate(date_str)),
            ParseTime(time_str))

DigitChars == <<"0","1","2","3","4","5","6","7","8","9">>

\* A number below 100 as two digits (the zero-padded %I and %M of strftime).
Pad2(n) == <<DigitChars[(n \div 10) + 1], DigitChars[(n % 10) + 1]>>

\* Mutant: the hour of the 12-hour clock counted from 0 (noon is 00).
Hour12_from_zero(h) == h % 12

\* The hour of the 12-hour clock (%I).
Hour12(h) == IF h % 12 = 0 THEN 12 ELSE h % 12

\* datetime.strftime("%I:%M %p") of the minute of the day.
FormatTime(tod) ==
    Pad2(Hour12(tod \div 60)) \o <<":">> \o Pad2(tod % 60) \o <<" ">>
        \o (IF tod < 720 THEN <<"A","M">> ELSE <<"P","M">>)

\* get_available_slots, lines 325-327.
working_hours_start == 9
working_hours_end == 17
slot_duration == 30

\* Mutant: the slot that starts at closing time is generated too.
RECURSIVE GenerateSlots_inclusive(_, _)
GenerateSlots_inclusive(current_time, end_time) ==
    IF current_time <= end_time
    THEN <<current_time>> \o GenerateSlots_inclusive(current_time + slot_duration, end_time)
    ELSE <<>>

\* Lines 334-341: the start instants of the slots of a day, in minutes.
RECURSIVE GenerateSlots(_, _)
GenerateSlots(current_time, end_time) ==
    IF current_time < end_time
    THEN <<current_time>> \o GenerateSlots(current_time + slot_duration, end_time)
    ELSE <<>>

\* The time strings the slot listing produces.
SlotTimeStrings ==
    LET tods == GenerateSlots(working_hours_start * 60, working_hours_end * 60)
    IN  { FormatTime(tods[k]) : k \in DOMAIN tods }

\* parse_time_slot tabulated over the strings requests carry (a string is
\* parsed once instead of at every scan; the value is parse_time_slot's).
DateStrings == {IsoDate, LongDate, BadDate}
TimeStrings == {T1000, T1015, T1030, BadTime} \cup SlotTimeStrings
ParsedSlots == [d \in DateStrings, t \in TimeStrings |-> parse_time_slot(d, t)]
ParsedSlot(date_str, time_str) ==
    IF <<date_str, time_str>> \in DOMAIN ParsedSlots
    THEN ParsedSlots[date_str, time_str]
    ELSE parse_time_slot(date_str, time_str)

\* strptime(f"{date} 09:00", "%Y-%m-%d %H:%M") accepts the dates that
\* "%Y-%m-%d" accepts; tabulated like ParsedSlots.
ParsedIsoDates == [d \in DateStrings |-> ParseIsoDate(d)]

\* Python's `a in b` on strings.
IsSubstring(a, b) ==
    \E i \in 0..(Len(b) - Len(a)) : SubSeq(b, i + 1, i + Len(a)) = a

\* Mutant: only identical instants are taken to conflict.
is_time_slot_conflict_exact(slot1, slot2, duration_minutes) ==
    slot1 = slot2

\* Mutant: a slot that starts when the other ends is taken to conflict.
is_time_slot_conflict_closed(slot1, slot2, duration_minutes) ==
    LET slot1_end == slot1 + duration_minutes
        slot2_end == slot2 + duration_minutes
    IN  (slot1 <= slot2_end) /\ (slot2 <= slot1_end)

\* Mutant: only a second slot that starts within the first one is taken
\* to conflict.
is_time_slot_conflict_forward(slot1, slot2, duration_minutes) ==
    LET slot1_end == slot1 + duration_minutes
    IN  (slot1 <= slot2) /\ (slot2 < slot1_end)

is_time_slot_conflict(slot1, slot2, duration_minutes) ==
    LET slot1_end == slot1 + duration_minutes
        slot2_end == slot2 + duration_minutes
    IN  (slot1 < slot2_end) /\ (slot2 < slot1_end)


(***************************************************************************)
(* The deployment (app/config.py) and the notification trace.              *)
(***************************************************************************)
\* smtp: the SMTP_* settings are all set; sms: the TWILIO_* settings are all
\* set.  The application of main.py only starts with smtp (its lifespan
\* constructs a NotificationService); the routers are also served without
\* it, and then the construction fails in the handler.
SettingsSpace == [smtp : BOOLEAN, sms : BOOLEAN]
DefaultSettings == [smtp |-> TRUE, sms |-> TRUE]

\* template_path.exists(): the HTML templates of notifications/templates
\* are files shipped with the application.
TemplatesExist == TRUE

\* steps: the calls made, in order; raised: an exception left the
\* notification block; sms, email: the channel results ("none": no call).
\* recorded: a notification record was written; smtp_failures: the sends
\* the mail server refuses before it accepts one (kept by the requests that
\* have no appointment to act on).  sms_error, email_error: the error a
\* failed channel result carries; patient, twilio_failures, db_ok: the
\* patient document and the surroundings of a send_notification call.
ContactFields == {"absent", "empty", "set"}

PreferenceFlags == {"unset", "true", "false"}

NoPatient == [email |-> "absent", phone |-> "absent", preferences |-> FALSE,
              emailNotifications |-> "unset", smsNotifications |-> "unset"]

NoNotify == [steps |-> <<>>, raised |-> FALSE, sms |-> "none", email |-> "none",
             recorded |-> FALSE, smtp_failures |-> 0,
             sms_error |-> "none", email_error |-> "none",
             patient |-> NoPatient, twilio_failures |-> 0, db_ok |-> TRUE]

(***************************************************************************)
(* The users collection and the request inputs.                            *)
(***************************************************************************)
Patients == {"p1", "p2"}
Doctors == {"d1", "d2"}
\* Authenticated callers; "u0" has a valid token but no document in `users`.
Callers == Patients \cup Doctors \cup {"u0"}
UserDocs == Patients \cup Doctors
UserRole(uid) == IF uid \in Doctors THEN "doctor" ELSE "patient"

\* The (doctor_id, appointment_date, appointment_time) triples a request may
\* carry; the last two are malformed (bad date, bad time).
SlotRequests ==
    { <<"d1", IsoDate, T1000>>, <<"d1", LongDate, T1015>>, <<"d1", IsoDate, T1030>>,
      <<"d2", IsoDate, T1000>>, <<"d1", BadDate, T1000>>, <<"d2", IsoDate, BadTime>> }

\* The booking requests: the authenticated caller and the triple they send.
BookRequests ==
    { <<"p1", <<"d1", IsoDate, T1000>> >>, <<"p2", <<"d1", LongDate, T1015>> >>,
      <<"p2", <<"d1", IsoDate, T1030>> >>, <<"p1", <<"d2", IsoDate, T1000>> >>,
      <<"p1", <<"d1", BadDate, T1000>> >>, <<"p2", <<"d2", IsoDate, BadTime>> >> }

\* AppointmentStatusUpdate.status is an unconstrained str.
RequestStatuses == {"pending", "approved", "rejected", "cancelled", "completed", "archived"}

SlotDuration == 30

\* The (doctor_id, date) pairs an available-slots request may carry; the
\* last one is not in the YYYY-MM-DD format the endpoint expects.
SlotsRequests == { <<"d1", IsoDate>>, <<"d2", IsoDate>>, <<"d1", LongDate>> }

\* repeat: the request repeats the one served just before it.
NoResp == [op |-> "none", caller |-> "none", doctor_id |-> "none", date |-> <<>>,
           notes |-> "none", slot1 |-> 0, slot2 |-> 0, duration_minutes |-> 0,
           conflict |-> FALSE, conflict_swapped |-> FALSE,
           time |-> <<>>, id |-> 0, status |-> "none", code |-> 0,
           available |-> FALSE, conflicts |-> {}, scanned |-> FALSE,
           repeat |-> FALSE, slots |-> <<>>, total_slots |-> 0, available_slots |-> 0]

(***************************************************************************)
(* POST /api/appointments/check-availability                               *)
(***************************************************************************)
\* Mutant: the scan skips cancelled appointments but not rejected ones.
ScanConflicts_cancelled_only(store, doctor_id, requested_slot) ==
    { i \in DOMAIN store :
        /\ store[i].doctorId = doctor_id
        /\ store[i].status # "cancelled"
        /\ LET existing_slot == ParsedSlot(store[i].date, store[i].time)
           IN  /\ existing_slot # Invalid
               /\ is_time_slot_conflict(requested_slot, existing_slot, SlotDuration) }

\* The conflict scan: ids of the doctor's appointments that are not
\* cancelled/rejected, parse, and overlap the requested slot.
ScanConflicts(store, doctor_id, requested_slot) ==
    { i \in DOMAIN store :
        /\ store[i].doctorId = doctor_id
        /\ store[i].status \notin {"cancelled", "rejected"}
        /\ LET existing_slot == ParsedSlot(store[i].date, store[i].time)
           IN  /\ existing_slot # Invalid
               /\ is_time_slot_conflict(requested_slot, existing_slot, SlotDuration) }

\* check_time_slot_availability with a slot that does not parse answered
\* as free.
check_time_slot_availability_unparsed(store, doctor_id, date, time) ==
    LET requested_slot == ParsedSlot(date, time)
        conflicts == ScanConflicts(store, doctor_id, requested_slot)
    IN  IF requested_slot = Invalid
        THEN [code |-> 200, available |-> TRUE, conflicts |-> {}, scanned |-> FALSE]
        ELSE [code |-> 200, available |-> (conflicts = {}), conflicts |-> conflicts,
              scanned |-> TRUE]

check_time_slot_availability(store, doctor_id, date, time) ==
    LET requested_slot == ParsedSlot(date, time)
        conflicts == ScanConflicts(store, doctor_id, requested_slot)
    IN  IF requested_slot = Invalid
        THEN [code |-> 400, available |-> FALSE, conflicts |-> {}, scanned |-> FALSE]
        ELSE [code |-> 200, available |-> (conflicts = {}), conflicts |-> conflicts,
              scanned |-> TRUE]

\* The request is the one the last response answered.
Repeats(resp, op, doctor_id, date, time) ==
    /\ resp.op = op
    /\ resp.doctor_id = doctor_id
    /\ resp.date = date
    /\ resp.time = time

\* Mutant: a repeated request is answered without a scan of the store.
CheckAvailability_unscanned_repeat ==
    \E req \in SlotRequests :
        LET r == check_time_slot_availability(
                    IF Repeats(lastResp, "check", req[1], req[2], req[3])
                    THEN <<>> ELSE appointments, req[1], req[2], req[3])
        IN  /\ served < MaxRequests
            /\ served' = served + 1
            /\ lastResp' = [NoResp EXCEPT !.op = "check", !.doctor_id = req[1],
                               !.date = req[2], !.time = req[3], !.code = r.code,
                               !.available = r.available, !.conflicts = r.conflicts,
                               !.scanned = r.scanned,
                               !.repeat = Repeats(lastResp, "check", req[1], req[2], req[3])]
            /\ UNCHANGED <<appointments, calls, settings, notify>>

CheckAvailability ==
    \E req \in SlotRequests :
        LET r == check_time_slot_availability(appointments, req[1], req[2], req[3])
        IN  /\ served < MaxRequests
            /\ served' = served + 1
            /\ lastResp' = [NoResp EXCEPT !.op = "check", !.doctor_id = req[1],
                               !.date = req[2], !.time = req[3], !.code = r.code,
                               !.available = r.available, !.conflicts = r.conflicts,
                               !.scanned = r.scanned,
                               !.repeat = Repeats(lastResp, "check", req[1], req[2], req[3])]
            /\ UNCHANGED <<appointments, calls, settings, notify>>

(***************************************************************************)
(* GET /api/appointments/available-slots/{doctor_id}                       *)
(***************************************************************************)
\* Mutant: cancelled and rejected appointments mark slots too.
SlotMarks_any_status(store, doctor_id, date, slot_datetime) ==
    { i \in DOMAIN store :
        /\ store[i].doctorId = doctor_id
        /\ (IsSubstring(date, store[i].date) \/ IsSubstring(store[i].date, date))
        /\ ParsedSlot(store[i].date, store[i].time) # Invalid
        /\ is_time_slot_conflict(slot_datetime, ParsedSlot(store[i].date, store[i].time),
                                 slot_duration) }

\* Lines 349-372: the appointments that mark the slot starting at the
\* instant slot_datetime as booked.
SlotMarks(store, doctor_id, date, slot_datetime) ==
    { i \in DOMAIN store :
        /\ store[i].doctorId = doctor_id
        /\ store[i].status \notin {"cancelled", "rejected"}
        /\ (IsSubstring(date, store[i].date) \/ IsSubstring(store[i].date, date))
        /\ ParsedSlot(store[i].date, store[i].time) # Invalid
        /\ is_time_slot_conflict(slot_datetime, ParsedSlot(store[i].date, store[i].time),
                                 slot_duration) }

\* Lines 334-341 and 349-385: one entry per generated slot.  booked_by is
\* the set of appointments that mark the slot; the response's
\* appointment_id is the one of them the query streams last.
ListSlots(store, doctor_id, date, day, tods) ==
    [ k \in DOMAIN tods |->
        [time |-> FormatTime(tods[k]),
         available |-> SlotMarks(store, doctor_id, date, Combine(day, tods[k])) = {},
         booked_by |-> SlotMarks(store, doctor_id, date, Combine(day, tods[k]))] ]

\* Mutant: available_slots counts every listed slot.
CountAvailable_every_slot(slots) == Len(slots)

CountAvailable(slots) == Cardinality({ k \in DOMAIN slots : slots[k].available })

\* Lines 387-393, and 395-398 when the date does not parse.
SlotsResponse(day, slots) ==
    IF day = Invalid
    THEN [code |-> 500, slots |-> <<>>, total_slots |-> 0, available_slots |-> 0]
    ELSE [code |-> 200, slots |-> slots, total_slots |-> Len(slots),
          available_slots |-> CountAvailable(slots)]

get_available_slots(store, doctor_id, date) ==
    SlotsResponse(ParsedIsoDates[date],
                  ListSlots(store, doctor_id, date, ParsedIsoDates[date],
                            GenerateSlots(working_hours_start * 60, working_hours_end * 60)))

AvailableSlots ==
    \E req \in SlotsRequests :
        LET r == get_available_slots(appointments, req[1], req[2])
        IN  /\ served < MaxRequests
            /\ served' = served + 1
            /\ lastResp' = [NoResp EXCEPT !.op = "slots", !.doctor_id = req[1],
                               !.date = req[2], !.code = r.code, !.slots = r.slots,
                               !.total_slots = r.total_slots,
                               !.available_slots = r.available_slots]
            /\ UNCHANGED <<appointments, calls, settings, notify>>

(***************************************************************************)
(* POST /api/appointments/book                                             *)
(***************************************************************************)
\* Mutant: the availability flag is not consulted before the write.
book_admit_unchecked(store, availability, uid, doctor_id, date, time) ==
    LET appointment_data == [doctorId |-> doctor_id, patientId |-> uid,
                             date |-> date, time |-> time, status |-> "pending",
                             updatedAt |-> "created", statusNotes |-> "none"]
    IN  IF availability.code # 200
        THEN [code |-> availability.code, store |-> store]
        ELSE [code |-> 200, store |-> Append(store, appointment_data)]

\* Mutant: the time string is normalised (stripped) before it is stored.
book_admit_stripped(store, availability, uid, doctor_id, date, time) ==
    LET appointment_data == [doctorId |-> doctor_id, patientId |-> uid,
                             date |-> date, time |-> Strip(time), status |-> "pending",
                             updatedAt |-> "created", statusNotes |-> "none"]
    IN  IF availability.code # 200
        THEN [code |-> availability.code, store |-> store]
        ELSE IF ~availability.available
        THEN [code |-> 409, store |-> store]
        ELSE [code |-> 200, store |-> Append(store, appointment_data)]

\* book_admit with the availability checked again against the store at
\* the moment of the write.
book_admit_rechecked(store, availability, uid, doctor_id, date, time) ==
    LET appointment_data == [doctorId |-> doctor_id, patientId |-> uid,
                             date |-> date, time |-> time, status |-> "pending",
                             updatedAt |-> "created", statusNotes |-> "none"]
    IN  IF availability.code # 200
        THEN [code |-> availability.code, store |-> store]
        ELSE IF ~availability.available
                \/ ~check_time_slot_availability(store, doctor_id, date, time).available
        THEN [code |-> 409, store |-> store]
        ELSE [code |-> 200, store |-> Append(store, appointment_data)]

\* Lines 203-234: what book does with the availability it was returned.
book_admit(store, availability, uid, doctor_id, date, time) ==
    LET appointment_data == [doctorId |-> doctor_id, patientId |-> uid,
                             date |-> date, time |-> time, status |-> "pending",
                             updatedAt |-> "created", statusNotes |-> "none"]
    IN  IF availability.code # 200
        THEN [code |-> availability.code, store |-> store]
        ELSE IF ~availability.available
        THEN [code |-> 409, store |-> store]
        ELSE [code |-> 200, store |-> Append(store, appointment_data)]

book_appointment(store, uid, doctor_id, date, time) ==
    LET availability == check_time_slot_availability(store, doctor_id, date, time)
        r == book_admit(store, availability, uid, doctor_id, date, time)
    IN  [code |-> r.code, store |-> r.store, availability |-> availability]

\* The request as the store and the caller see it; the notifications it
\* sends after the write are followed in BookNotify.
Book ==
    \E breq \in BookRequests :
        LET uid == breq[1]
            doctor_id == breq[2][1]
            date == breq[2][2]
            time == breq[2][3]
            r == book_appointment(appointments, uid, doctor_id, date, time)
        IN  /\ served < MaxRequests
            /\ served' = served + 1
            /\ Len(r.store) <= MaxAppts
            /\ appointments' = r.store
            /\ lastResp' = [NoResp EXCEPT !.op = "book", !.caller = uid,
                               !.doctor_id = doctor_id, !.date = date,
                               !.time = time, !.code = r.code,
                               !.id = IF r.code = 200 THEN Len(r.store) ELSE 0,
                               !.available = r.availability.available,
                               !.conflicts = r.availability.conflicts,
                               !.scanned = r.availability.scanned]
            /\ UNCHANGED <<calls, settings, notify>>

(***************************************************************************)
(* PUT /api/appointments/{appointment_id}/status                           *)
(***************************************************************************)
\* AppointmentStatusUpdate.notes: not sent, sent empty, or a text.
RequestNotes == {"absent", "empty", "n1"}

\* Mutant: statusNotes is always set, and cleared by a request without
\* notes.
update_data_notes_always(status, notes) ==
    IF notes \notin {"absent", "empty"}
    THEN [status |-> status, updatedAt |-> "updated", statusNotes |-> notes]
    ELSE [status |-> status, updatedAt |-> "updated", statusNotes |-> "none"]

\* Lines 509-515: the fields the update sets; updatedAt is the server
\* time of the update ("updated", against "created" for the time of the
\* booking), statusNotes only `if request.notes`.
update_data(status, notes) ==
    IF notes \notin {"absent", "empty"}
    THEN [status |-> status, updatedAt |-> "updated", statusNotes |-> notes]
    ELSE [status |-> status, updatedAt |-> "updated"]

\* Line 517: DocumentReference.update sets the named fields of the
\* document and leaves the others.
DocUpdate(doc, data) ==
    [f \in DOMAIN doc |-> IF f \in DOMAIN data THEN data[f] ELSE doc[f]]

\* Mutant: the role check covers 'approved' only.
update_appointment_status_reject_open(store, uid, appointment_id, status, notes) ==
    IF appointment_id \notin DOMAIN store
    THEN [code |-> 404, store |-> store]
    ELSE IF uid \notin UserDocs
    THEN [code |-> 404, store |-> store]
    ELSE LET appointment == store[appointment_id]
             user_role == UserRole(uid)
         IN  IF status = "approved" /\ user_role # "doctor"
             THEN [code |-> 403, store |-> store]
             ELSE IF status = "cancelled" /\ appointment.patientId # uid
                     /\ user_role # "doctor"
             THEN [code |-> 403, store |-> store]
             ELSE [code |-> 200,
                   store |-> [store EXCEPT ![appointment_id] =
                                DocUpdate(@, update_data(status, notes))]]

\* Mutant: the ownership check on 'cancelled' is missing.
update_appointment_status_any_cancel(store, uid, appointment_id, status, notes) ==
    IF appointment_id \notin DOMAIN store
    THEN [code |-> 404, store |-> store]
    ELSE IF uid \notin UserDocs
    THEN [code |-> 404, store |-> store]
    ELSE LET user_role == UserRole(uid)
         IN  IF status \in {"approved", "rejected"} /\ user_role # "doctor"
             THEN [code |-> 403, store |-> store]
             ELSE [code |-> 200,
                   store |-> [store EXCEPT ![appointment_id] =
                                DocUpdate(@, update_data(status, notes))]]

update_appointment_status(store, uid, appointment_id, status, notes) ==
    IF appointment_id \notin DOMAIN store
    THEN [code |-> 404, store |-> store]
    ELSE IF uid \notin UserDocs
    THEN [code |-> 404, store |-> store]
    ELSE LET appointment == store[appointment_id]
             user_role == UserRole(uid)
         IN  IF status \in {"approved", "rejected"} /\ user_role # "doctor"
             THEN [code |-> 403, store |-> store]
             ELSE IF status = "cancelled" /\ appointment.patientId # uid
                     /\ user_role # "doctor"
             THEN [code |-> 403, store |-> store]
             ELSE [code |-> 200,
                   store |-> [store EXCEPT ![appointment_id] =
                                DocUpdate(@, update_data(status, notes))]]

\* The request as the store and the caller see it, sent without notes
\* (UpdateStatusNoted follows the notes); the notifications it sends after
\* the write are followed in UpdateStatusNotify.
UpdateStatus ==
    \E uid \in Callers, appointment_id \in 1..(MaxAppts + 1), status \in RequestStatuses :
        LET r == update_appointment_status(appointments, uid, appointment_id, status,
                                           "absent")
        IN  /\ served < MaxRequests
            /\ served' = served + 1
            /\ appointments' = r.store
            /\ lastResp' = [NoResp EXCEPT !.op = "update", !.caller = uid,
                               !.id = appointment_id, !.status = status,
                               !.code = r.code]
            /\ UNCHANGED <<calls, settings, notify>>

\* The request with its notes, from the callers and for the statuses of
\* StatusCallers and StatusTargets.
UpdateStatusNoted ==
    \E uid \in {"d1", "p1", "p2"}, appointment_id \in 1..(MaxAppts + 1),
       status \in {"approved", "cancelled"}, notes \in RequestNotes :
        LET r == update_appointment_status(appointments, uid, appointment_id, status, notes)
        IN  /\ served < MaxRequests
            /\ served' = served + 1
            /\ appointments' = r.store
            /\ lastResp' = [NoResp EXCEPT !.op = "update", !.caller = uid,
                               !.id = appointment_id, !.status = status,
                               !.notes = notes, !.code = r.code]
            /\ UNCHANGED <<calls, settings, notify>>

(***************************************************************************)
(* Notifications: NotificationService (notifications/service.py) and its   *)
(* providers (notifications/providers.py).  A call is recorded by its      *)
(* name in `steps`; a channel result is "ok", "failed" or "none" (the      *)
(* channel was not called).                                                *)
(***************************************************************************)
\* stop_after_attempt(3) on the providers' send.
RetryAttempts == 3

\* What the mail server and Twilio do with this request's sends:
\* smtp_failures sends are refused before one is accepted; twilio_ok: the
\* Twilio API call returns.
SmtpFailures == {0, 1, RetryAttempts}

NoCall == [steps |-> <<>>, result |-> "none", error |-> "none"]

Repeated(step, n) == [i \in 1..n |-> step]

\* EmailProvider.send without the retry decorator.
EmailProvider_send_once(smtp_failures) ==
    IF smtp_failures = 0
    THEN [steps |-> <<"EmailProvider.send">>, result |-> "ok", error |-> "none"]
    ELSE [steps |-> <<"EmailProvider.send">>, result |-> "raised", error |-> "smtp"]

\* EmailProvider.send under @retry: the sends made; a send that raises is
\* run again until stop_after_attempt(3), and then the call raises.
EmailProvider_send(smtp_failures) ==
    IF smtp_failures < RetryAttempts
    THEN [steps |-> Repeated("EmailProvider.send", smtp_failures + 1), result |-> "ok",
          error |-> "none"]
    ELSE [steps |-> Repeated("EmailProvider.send", RetryAttempts), result |-> "raised",
          error |-> "smtp"]

\* SMSProvider.send without the configuration check of lines 143-154.
SMSProvider_send_unguarded(sms_configured, twilio_ok) ==
    [steps |-> <<"SMSProvider.send", "messages.create">>,
     result |-> IF twilio_ok THEN "ok" ELSE "failed",
     error |-> IF twilio_ok THEN "none" ELSE "twilio"]

\* SMSProvider.send: without the Twilio settings it returns a failure at
\* once (lines 143-154); otherwise it calls the Twilio API
\* (client.messages.create).  Every exception is caught inside the method
\* (lines 178-185), so the retry never re-runs it.  twilio_ok: the first
\* API call returns.
SMSProvider_send(sms_configured, twilio_ok) ==
    IF ~sms_configured
    THEN [steps |-> <<"SMSProvider.send">>, result |-> "failed", error |-> "not configured"]
    ELSE [steps |-> <<"SMSProvider.send", "messages.create">>,
          result |-> IF twilio_ok THEN "ok" ELSE "failed",
          error |-> IF twilio_ok THEN "none" ELSE "twilio"]

\* NotificationService.send_sms.
send_sms(sms_configured, twilio_ok) ==
    IF ~sms_configured
    THEN [steps |-> <<"send_sms">>, result |-> "failed", error |-> "not configured"]
    ELSE [steps |-> <<"send_sms">> \o SMSProvider_send(sms_configured, twilio_ok).steps,
          result |-> SMSProvider_send(sms_configured, twilio_ok).result,
          error |-> SMSProvider_send(sms_configured, twilio_ok).error]

\* NotificationService.send_email: line 406 calls email_provider.send_email,
\* a method EmailProvider does not define (it defines send); the
\* AttributeError is caught at line 413 and a failure is returned.
send_email ==
    [steps |-> <<"send_email">>, result |-> "failed", error |-> "exception"]

\* The notification block of a handler: NotificationService(db), which
\* raises when the SMTP settings are missing, then the two channels.
Dispatch(cfg, sms, email) ==
    IF ~cfg.smtp
    THEN [NoNotify EXCEPT !.steps = <<"NotificationService">>, !.raised = TRUE]
    ELSE [NoNotify EXCEPT !.steps = <<"NotificationService">> \o sms.steps \o email.steps,
                          !.sms = sms.result, !.email = email.result,
                          !.sms_error = sms.error, !.email_error = email.error]

\* The contact fields.  A booking request always carries patient_email
\* (EmailStr); these callers send patient_phone with it.
RequestPhone(uid) == uid \in {"p1", "u0"}
\* The `email` and `phone` fields and the smsNotifications preference of
\* the user documents.
DocEmail(uid) == uid \in {"p1", "d1", "d2"}
DocPhone(uid) == uid \in {"p1"}
SmsPreference(uid) == uid \in {"p1"}

\* book_appointment, lines 238-285.
book_notifications(cfg, patient_phone, twilio_ok) ==
    Dispatch(cfg,
             IF patient_phone THEN send_sms(cfg.sms, twilio_ok) ELSE NoCall,
             IF TemplatesExist THEN send_email ELSE NoCall)

\* Mutant: the notification error leaves the handler (500) instead of
\* being logged.
BookOutcome_propagating(r, n) ==
    [code |-> IF r.code = 200 /\ n.raised THEN 500 ELSE r.code,
     store |-> r.store, availability |-> r.availability,
     notify |-> IF r.code = 200 THEN n ELSE NoNotify]

\* Mutant: the notification block runs before the write.
BookOutcome_notify_first(r, n) ==
    [code |-> r.code, store |-> r.store, availability |-> r.availability,
     notify |-> IF r.code = 200
                THEN [n EXCEPT !.steps = n.steps \o <<"appointment_ref.set">>]
                ELSE NoNotify]

\* Lines 203-295: the write (appointment_ref.set, line 234), then the
\* notification block, which runs after the write only and whose
\* exceptions are logged (lines 283-285).
BookOutcome(r, n) ==
    [code |-> r.code, store |-> r.store, availability |-> r.availability,
     notify |-> IF r.code = 200
                THEN [n EXCEPT !.steps = <<"appointment_ref.set">> \o n.steps]
                ELSE NoNotify]

\* POST /api/appointments/book, notifications included.
book_request(store, cfg, uid, doctor_id, date, time, twilio_ok) ==
    BookOutcome(book_appointment(store, uid, doctor_id, date, time),
                book_notifications(cfg, RequestPhone(uid), twilio_ok))

\* Mutant: a failed SMS send ends the notification block.
status_notifications_sms_aborts(cfg, patient_id, twilio_ok) ==
    Dispatch(cfg,
             IF patient_id \in UserDocs /\ (DocPhone(patient_id) \/ RequestPhone(patient_id))
             THEN send_sms(cfg.sms, twilio_ok) ELSE NoCall,
             IF patient_id \in UserDocs /\ TemplatesExist
                /\ (~(DocPhone(patient_id) \/ RequestPhone(patient_id))
                    \/ send_sms(cfg.sms, twilio_ok).result = "ok")
             THEN send_email ELSE NoCall)

\* update_appointment_status, lines 521-586: the channels are used only
\* when the patient's user document exists; phone and email come from it
\* or else from the appointment (which always carries patientEmail).
status_notifications(cfg, patient_id, twilio_ok) ==
    Dispatch(cfg,
             IF patient_id \in UserDocs /\ (DocPhone(patient_id) \/ RequestPhone(patient_id))
             THEN send_sms(cfg.sms, twilio_ok) ELSE NoCall,
             IF patient_id \in UserDocs /\ TemplatesExist THEN send_email ELSE NoCall)

PatientOf(store, appointment_id) ==
    IF appointment_id \in DOMAIN store THEN store[appointment_id].patientId ELSE "none"

\* Mutant: the notification block runs whatever the outcome of the update.
StatusOutcome_always_notifies(r, n) ==
    [code |-> r.code, store |-> r.store, notify |-> n]

\* Lines 479-596: the write (appointment_ref.update, line 517), then the
\* notification block, which runs after the write only.
StatusOutcome(r, n) ==
    [code |-> r.code, store |-> r.store,
     notify |-> IF r.code = 200
                THEN [n EXCEPT !.steps = <<"appointment_ref.update">> \o n.steps]
                ELSE NoNotify]

\* PUT /api/appointments/{appointment_id}/status, notifications included.
status_request(store, cfg, uid, appointment_id, status, twilio_ok) ==
    StatusOutcome(update_appointment_status(store, uid, appointment_id, status, "absent"),
                  status_notifications(cfg, PatientOf(store, appointment_id), twilio_ok))

\* The booking requests of SpecNotify; "u0" has no user document, and the
\* last two are malformed (bad date, bad time).
NotifyBookRequests ==
    { <<"p1", <<"d1", IsoDate, T1000>> >>, <<"p2", <<"d1", LongDate, T1015>> >>,
      <<"u0", <<"d1", IsoDate, T1030>> >>,
      <<"p1", <<"d1", BadDate, T1000>> >>, <<"u0", <<"d1", IsoDate, BadTime>> >> }

NotifyCallers == {"d1", "d2", "p1"}
NotifyStatuses == {"approved", "cancelled"}

BookNotify ==
    \E breq \in NotifyBookRequests, twilio_ok \in BOOLEAN :
        LET r == book_request(appointments, settings, breq[1], breq[2][1], breq[2][2],
                              breq[2][3], twilio_ok)
        IN  /\ served < MaxRequests
            /\ served' = served + 1
            /\ Len(r.store) <= MaxAppts
            /\ appointments' = r.store
            /\ lastResp' = [NoResp EXCEPT !.op = "book", !.caller = breq[1],
                               !.doctor_id = breq[2][1], !.date = breq[2][2],
                               !.time = breq[2][3], !.code = r.code,
                               !.id = IF r.code = 200 THEN Len(r.store) ELSE 0,
                               !.available = r.availability.available,
                               !.conflicts = r.availability.conflicts,
                               !.scanned = r.availability.scanned]
            /\ notify' = r.notify
            /\ UNCHANGED <<calls, settings>>

UpdateStatusNotify ==
    \E uid \in NotifyCallers, appointment_id \in 1..(MaxAppts + 1),
       status \in NotifyStatuses, twilio_ok \in BOOLEAN :
        LET r == status_request(appointments, settings, uid, appointment_id, status, twilio_ok)
        IN  /\ served < MaxRequests
            /\ served' = served + 1
            /\ appointments' = r.store
            /\ lastResp' = [NoResp EXCEPT !.op = "update", !.caller = uid,
                               !.id = appointment_id, !.status = status,
                               !.code = r.code]
            /\ notify' = r.notify
            /\ UNCHANGED <<calls, settings>>

(***************************************************************************)
(* POST /api/notify/test (routes/notifications.py)                         *)
(***************************************************************************)
\* Lines 228-273: the service is constructed and the template is read
\* before anything is sent; what either raises is answered 500.  The email
\* is sent first, then the SMS when the request carries a phone.
test_notification(cfg, phone, twilio_ok) ==
    IF ~cfg.smtp \/ ~TemplatesExist
    THEN [code |-> 500,
          notify |-> [NoNotify EXCEPT !.steps = <<"NotificationService">>, !.raised = TRUE]]
    ELSE [code |-> 200,
          notify |-> [NoNotify EXCEPT
                        !.steps = <<"NotificationService">> \o send_email.steps
                                    \o (IF phone THEN send_sms(cfg.sms, twilio_ok).steps
                                        ELSE <<>>),
                        !.email = send_email.result,
                        !.email_error = send_email.error,
                        !.sms = IF phone THEN send_sms(cfg.sms, twilio_ok).result
                                ELSE "failed",
                        !.sms_error = IF phone THEN send_sms(cfg.sms, twilio_ok).error
                                      ELSE "no phone"]]

TestNotification ==
    \E phone \in BOOLEAN, twilio_ok \in BOOLEAN, smtp_failures \in SmtpFailures :
        LET r == test_notification(settings, phone, twilio_ok)
        IN  /\ served < MaxRequests
            /\ served' = served + 1
            /\ lastResp' = [NoResp EXCEPT !.op = "test", !.code = r.code]
            /\ notify' = [r.notify EXCEPT !.smtp_failures = smtp_failures]
            /\ UNCHANGED <<appointments, calls, settings>>

(***************************************************************************)
(* POST /api/notify/upload (main.py) and                                   *)
(* NotificationService.send_notification                                   *)
(***************************************************************************)
\* The patient documents send_notification may be handed: the contact
\* fields, and the preferences with their two flags when the document has
\* them.
PatientDocs ==
    { d \in [email : ContactFields, phone : ContactFields, preferences : BOOLEAN,
             emailNotifications : PreferenceFlags, smsNotifications : PreferenceFlags] :
        ~d.preferences => (d.emailNotifications = "unset" /\ d.smsNotifications = "unset") }

\* The user document of uid, as send_notification reads it.
UserDoc(uid) ==
    [email |-> IF DocEmail(uid) THEN "set" ELSE "absent",
     phone |-> IF DocPhone(uid) THEN "set" ELSE "absent",
     preferences |-> SmsPreference(uid),
     emailNotifications |-> "unset",
     smsNotifications |-> IF SmsPreference(uid) THEN "true" ELSE "unset"]

\* email_enabled with the default of sms_enabled (False).
email_enabled_opt_in(patient) == patient.emailNotifications = "true"

\* Lines 50-52: preferences.get("emailNotifications", True) and
\* preferences.get("smsNotifications", False).
email_enabled(patient) == patient.emailNotifications # "false"

\* sms_enabled with the default of email_enabled (True).
sms_enabled_unless_false(patient) == patient.smsNotifications # "false"

sms_enabled(patient) == patient.smsNotifications = "true"

\* EmailChannel without the except clause of lines 60-62.
EmailChannel_uncaught(email_applicable, smtp_failures) ==
    IF email_applicable
    THEN [steps |-> <<"_send_email_notification">> \o EmailProvider_send(smtp_failures).steps,
          result |-> EmailProvider_send(smtp_failures).result,
          error |-> EmailProvider_send(smtp_failures).error]
    ELSE NoCall

\* Lines 54-64 of service.py: the email channel, when the patient has an
\* email and has not switched emailNotifications off; what the provider
\* raises is caught and becomes a failed result.
EmailChannel(email_applicable, smtp_failures) ==
    IF email_applicable
    THEN [steps |-> <<"_send_email_notification">> \o EmailProvider_send(smtp_failures).steps,
          result |-> IF EmailProvider_send(smtp_failures).result = "raised" THEN "failed"
                     ELSE EmailProvider_send(smtp_failures).result,
          error |-> EmailProvider_send(smtp_failures).error]
    ELSE NoCall

\* Lines 66-76: the SMS channel, when the patient asked for SMS, has a
\* phone and Twilio is configured; the email result plays no part.
SmsChannel(sms_applicable, sms_configured, twilio_ok) ==
    IF sms_applicable
    THEN [steps |-> <<"_send_sms_notification">>
                      \o SMSProvider_send(sms_configured, twilio_ok).steps,
          result |-> SMSProvider_send(sms_configured, twilio_ok).result,
          error |-> SMSProvider_send(sms_configured, twilio_ok).error]
    ELSE NoCall

\* Lines 78-81 and 335-370: the notification record is written unless a
\* channel was skipped (its result is None and line 355 or 356 raises) or
\* the write fails; either is logged inside _create_notification_record.
Dispatched(email, sms, db_ok) ==
    [NoNotify EXCEPT
        !.steps = <<"send_notification">> \o email.steps \o sms.steps
                    \o <<"_create_notification_record">>,
        !.raised = (email.result = "raised" \/ sms.result = "raised"),
        !.email = email.result, !.sms = sms.result,
        !.email_error = email.error, !.sms_error = sms.error,
        !.recorded = (email.result # "none" /\ sms.result # "none" /\ db_ok)]

\* send_notification with the SMS channel entered for every patient with a
\* phone, whatever the preferences.
send_notification_sms_by_phone(cfg, patient, twilio_ok, smtp_failures, db_ok) ==
    Dispatched(EmailChannel(email_enabled(patient) /\ patient.email = "set", smtp_failures),
               SmsChannel(patient.phone = "set" /\ cfg.sms, cfg.sms, twilio_ok),
               db_ok)

send_notification(cfg, patient, twilio_ok, smtp_failures, db_ok) ==
    Dispatched(EmailChannel(email_enabled(patient) /\ patient.email = "set", smtp_failures),
               SmsChannel(sms_enabled(patient) /\ patient.phone = "set" /\ cfg.sms,
                          cfg.sms, twilio_ok),
               db_ok)

\* main.py lines 240-291, for a record the caller uploaded: 404 when the
\* patient has no user document; otherwise the dispatch, whose result
\* NotifyResult (schemas.py) does not accept, which is answered 500.
notify_upload(cfg, patient, twilio_ok, smtp_failures, db_ok) ==
    IF patient \notin UserDocs
    THEN [code |-> 404, notify |-> NoNotify]
    ELSE [code |-> 500,
          notify |-> send_notification(cfg, UserDoc(patient), twilio_ok, smtp_failures, db_ok)]

\* The application of main.py only starts with the SMTP settings present
\* (lifespan, line 64).
NotifyUpload ==
    \E patient \in Patients \cup {"u0"}, twilio_ok \in BOOLEAN,
       smtp_failures \in SmtpFailures, db_ok \in BOOLEAN :
        LET r == notify_upload(settings, patient, twilio_ok, smtp_failures, db_ok)
        IN  /\ settings.smtp
            /\ served < MaxRequests
            /\ served' = served + 1
            /\ lastResp' = [NoResp EXCEPT !.op = "notify_upload", !.caller = patient,
                               !.code = r.code]
            /\ notify' = [r.notify EXCEPT !.smtp_failures = smtp_failures]
            /\ UNCHANGED <<appointments, calls, settings>>

(***************************************************************************)
(* The dispatcher and the providers called on their own                    *)
(***************************************************************************)
\* The sends a delivery service refuses before it accepts one.
DeliveryFailures == 0..(RetryAttempts + 1)

\* The dispatcher and provider calls followed in one behaviour.
MaxDispatches == 2

\* NotificationService.send_notification for any patient document; the
\* service only exists with the SMTP settings present (EmailProvider()).
\* The Twilio API call of the request returns when Twilio refuses no send.
SendNotification ==
    \E patient \in PatientDocs, twilio_failures \in {0, 1},
       smtp_failures \in {0, RetryAttempts}, db_ok \in BOOLEAN :
        /\ settings.smtp
        /\ served < MaxDispatches
        /\ served' = served + 1
        /\ lastResp' = [NoResp EXCEPT !.op = "send_notification"]
        /\ notify' = [send_notification(settings, patient, twilio_failures = 0,
                                        smtp_failures, db_ok)
                        EXCEPT !.patient = patient, !.smtp_failures = smtp_failures,
                               !.twilio_failures = twilio_failures, !.db_ok = db_ok]
        /\ UNCHANGED <<appointments, calls, settings>>

\* EmailProvider.send called on its own (providers.py lines 41-60).
EmailProviderSend ==
    \E smtp_failures \in DeliveryFailures :
        /\ settings.smtp
        /\ served < MaxDispatches
        /\ served' = served + 1
        /\ lastResp' = [NoResp EXCEPT !.op = "EmailProvider.send"]
        /\ notify' = [NoNotify EXCEPT
                         !.steps = EmailProvider_send(smtp_failures).steps,
                         !.email = EmailProvider_send(smtp_failures).result,
                         !.email_error = EmailProvider_send(smtp_failures).error,
                         !.raised = (EmailProvider_send(smtp_failures).result = "raised"),
                         !.smtp_failures = smtp_failures]
        /\ UNCHANGED <<appointments, calls, settings>>

\* SMSProvider.send called on its own (providers.py lines 139-185).
SmsProviderSend ==
    \E twilio_failures \in DeliveryFailures :
        /\ served < MaxDispatches
        /\ served' = served + 1
        /\ lastResp' = [NoResp EXCEPT !.op = "SMSProvider.send"]
        /\ notify' = [NoNotify EXCEPT
                         !.steps = SMSProvider_send(settings.sms, twilio_failures = 0).steps,
                         !.sms = SMSProvider_send(settings.sms, twilio_failures = 0).result,
                         !.sms_error = SMSProvider_send(settings.sms, twilio_failures = 0).error,
                         !.twilio_failures = twilio_failures]
        /\ UNCHANGED <<appointments, calls, settings>>

(***************************************************************************)
(* book_appointment step by step, for requests served concurrently: the    *)
(* availability check (line 201), then the admission and the write (lines  *)
(* 203-234), then the response (lines 287-295).                            *)
(***************************************************************************)
Workers == {"w1", "w2"}

NoAvailability == [code |-> 0, available |-> FALSE, conflicts |-> {}, scanned |-> FALSE]

\* appointment_id, status, seen: the addressed appointment, the requested
\* status and the stored status read, for a status update.
IdleCall == [pc |-> "idle", uid |-> "none", doctor_id |-> "none", date |-> <<>>,
             time |-> <<>>, availability |-> NoAvailability, code |-> 0,
             appointment_id |-> 0, status |-> "none", seen |-> "none"]

\* Line 201: the request arrives and the availability check runs.
BookScan(w) ==
    /\ calls[w].pc \in {"idle", "done"}
    /\ \E breq \in BookRequests :
         calls' = [calls EXCEPT ![w] =
                     [IdleCall EXCEPT
                        !.pc = "scanned", !.uid = breq[1], !.doctor_id = breq[2][1],
                        !.date = breq[2][2], !.time = breq[2][3],
                        !.availability = check_time_slot_availability(
                                            appointments, breq[2][1], breq[2][2], breq[2][3])]]
    /\ UNCHANGED <<appointments, lastResp, served, settings, notify>>

\* Lines 203-234: refuse with 400/409, or add the appointment.
BookWrite(w) ==
    /\ calls[w].pc = "scanned"
    /\ LET c == calls[w]
           r == book_admit(appointments, c.availability, c.uid, c.doctor_id, c.date, c.time)
       IN  /\ Len(r.store) <= MaxAppts
           /\ appointments' = r.store
           /\ calls' = [calls EXCEPT ![w].pc = IF r.code = 200 THEN "written" ELSE "done",
                                     ![w].code = r.code]
    /\ UNCHANGED <<lastResp, served, settings, notify>>

\* Lines 287-295: the success response.
BookReturn(w) ==
    /\ calls[w].pc = "written"
    /\ calls' = [calls EXCEPT ![w].pc = "done"]
    /\ UNCHANGED <<appointments, lastResp, served, settings, notify>>

(***************************************************************************)
(* update_appointment_status step by step, for requests served             *)
(* concurrently: the reads and the permission checks (lines 482-506), the  *)
(* update of the document (lines 509-517), then the response (lines        *)
(* 588-596).  The notifications sent in between are followed in            *)
(* UpdateStatusNotify.                                                     *)
(***************************************************************************)
StatusCallers == {"d1", "p1", "p2"}

\* The appointment the concurrent requests address.
StatusIds == {1}

StatusTargets == {"approved", "cancelled"}

\* Mutant: the update is applied only when the stored status is still the
\* one the request read.
status_write_compare_and_swap(store, seen, appointment_id, status) ==
    IF store[appointment_id].status # seen
    THEN [code |-> 409, store |-> store]
    ELSE [code |-> 200,
          store |-> [store EXCEPT ![appointment_id] =
                       DocUpdate(@, update_data(status, "absent"))]]

\* Lines 509-517: appointment_ref.update(update_data), whatever the
\* document holds by now.
status_write(store, seen, appointment_id, status) ==
    [code |-> 200,
     store |-> [store EXCEPT ![appointment_id] = DocUpdate(@, update_data(status, "absent"))]]

\* Lines 482-506: the request arrives, the appointment and the caller's
\* user document are read and the permissions checked.
StatusRead(w) ==
    /\ calls[w].pc \in {"idle", "done"}
    /\ served < MaxRequests
    /\ served' = served + 1
    /\ \E uid \in StatusCallers, appointment_id \in StatusIds, status \in StatusTargets :
         LET r == update_appointment_status(appointments, uid, appointment_id, status,
                                            "absent")
         IN  calls' = [calls EXCEPT ![w] =
                         [IdleCall EXCEPT
                            !.pc = IF r.code = 200 THEN "checked" ELSE "done",
                            !.uid = uid, !.appointment_id = appointment_id,
                            !.status = status, !.code = r.code,
                            !.seen = IF appointment_id \in DOMAIN appointments
                                     THEN appointments[appointment_id].status
                                     ELSE "none"]]
    /\ UNCHANGED <<appointments, lastResp, settings, notify>>

StatusWrite(w) ==
    /\ calls[w].pc = "checked"
    /\ LET c == calls[w]
           r == status_write(appointments, c.seen, c.appointment_id, c.status)
       IN  /\ appointments' = r.store
           /\ calls' = [calls EXCEPT ![w].pc = IF r.code = 200 THEN "updated" ELSE "done",
                                     ![w].code = r.code]
    /\ UNCHANGED <<lastResp, served, settings, notify>>

\* Lines 588-596: the document is read again and returned.
StatusReturn(w) ==
    /\ calls[w].pc = "updated"
    /\ calls' = [calls EXCEPT ![w].pc = "done"]
    /\ UNCHANGED <<appointments, lastResp, served, settings, notify>>

Init ==
    /\ appointments = <<>>
    /\ lastResp = NoResp
    /\ calls = [w \in Workers |-> IdleCall]
    /\ served = 0
    /\ settings = DefaultSettings
    /\ notify = NoNotify

Next == CheckAvailability \/ AvailableSlots \/ Book \/ UpdateStatus

\* Requests served one at a time, each to completion.
Spec == Init /\ [][Next]_vars

\* The deployment is any combination of settings.
InitNotify ==
    /\ appointments = <<>>
    /\ lastResp = NoResp
    /\ calls = [w \in Workers |-> IdleCall]
    /\ served = 0
    /\ settings \in SettingsSpace
    /\ notify = NoNotify

NextNotify == BookNotify \/ UpdateStatusNotify \/ TestNotification \/ NotifyUpload

\* Requests served one at a time, with the notifications each one sends.
SpecNotify == InitNotify /\ [][NextNotify]_vars

\* The two endpoints that take a slot from the request, under any settings.
NextIntake == CheckAvailability \/ BookNotify

SpecIntake == InitNotify /\ [][NextIntake]_vars

\* The dispatcher, the providers and the test endpoint, under any settings.
NextDispatch == SendNotification \/ EmailProviderSend \/ SmsProviderSend \/ TestNotification

SpecDispatch == InitNotify /\ [][NextDispatch]_vars

NextConc == \E w \in Workers : BookScan(w) \/ BookWrite(w) \/ BookReturn(w)

\* Book requests served concurrently by two workers.
SpecConc == Init /\ [][NextConc]_vars

(***************************************************************************)
(* is_time_slot_conflict called on its own: the arguments are drawn at the *)
(* start and the call is made once in each order of the two instants.      *)
(***************************************************************************)
\* Instants in minutes: every five minutes from 09:00 to 10:30 of one day,
\* and 09:00 and 09:15 of the next.
Instants == { 540 + 5 * k : k \in 0..18 } \cup {1980, 1995}

\* duration_minutes is an unconstrained int.
Durations == {-30, 0, 1, 15, 30, 60}

InitConflict ==
    /\ appointments = <<>>
    /\ lastResp \in { [NoResp EXCEPT !.op = "arguments", !.slot1 = a, !.slot2 = b,
                                     !.duration_minutes = d] :
                         a \in Instants, b \in Instants, d \in Durations }
    /\ calls = [w \in Workers |-> IdleCall]
    /\ served = 0
    /\ settings = DefaultSettings
    /\ notify = NoNotify

ConflictCall ==
    /\ lastResp.op = "arguments"
    /\ lastResp' = [lastResp EXCEPT
                      !.op = "is_time_slot_conflict",
                      !.conflict = is_time_slot_conflict(
                                       lastResp.slot1, lastResp.slot2,
                                       lastResp.duration_minutes),
                      !.conflict_swapped = is_time_slot_conflict(
                                       lastResp.slot2, lastResp.slot1,
                                       lastResp.duration_minutes)]
    /\ UNCHANGED <<appointments, calls, served, settings, notify>>

NextConflict == ConflictCall

SpecConflict == InitConflict /\ [][NextConflict]_vars

NextFrame == Book \/ UpdateStatusNoted

\* Bookings and status updates with notes, served one at a time.
SpecFrame == Init /\ [][NextFrame]_vars

NextStatusConc ==
    Book \/ \E w \in Workers : StatusRead(w) \/ StatusWrite(w) \/ StatusReturn(w)

\* Status updates served concurrently by two workers, on the appointments
\* that book requests stored.
SpecStatusConc == Init /\ [][NextStatusConc]_vars

(***************************************************************************)
(* Vocabulary of the properties.                                           *)
(***************************************************************************)
Statuses == {"pending", "approved", "rejected", "cancelled", "completed"}
TerminalStatuses == {"rejected", "cancelled", "completed"}
AllowedTransitions == { <<"pending", "approved">>, <<"pending", "rejected">>,
                        <<"pending", "cancelled">>, <<"approved", "cancelled">>,
                        <<"approved", "completed">> }

IsActive(a) == a.status \notin {"cancelled", "rejected"}
StartOf(a) == ParsedSlot(a.date, a.time)
\* The minutes of the half-open interval [start, start + 30min).
Interval(start) == start .. (start + 29)
Overlap(s1, s2) == Interval(s1) \cap Interval(s2) # {}

\* The active appointments of a doctor in `store` whose interval overlaps
\* the one starting at `start`.
ActiveOverlapping(store, doctor_id, start) ==
    { i \in DOMAIN store : /\ store[i].doctorId = doctor_id
                           /\ IsActive(store[i])
                           /\ Overlap(StartOf(store[i]), start) }

\* The slot instant of the request recorded in a response.
RespStart(r) == ParsedSlot(r.date, r.time)

(***************************************************************************)
(* C1: for every doctor, any two distinct stored appointments of that      *)
(* doctor that are neither cancelled nor rejected have non-overlapping     *)
(* 30-minute intervals.                                                    *)
(***************************************************************************)
C1_NoDoubleBooking ==
    \A i, j \in DOMAIN appointments :
        ( /\ i # j
          /\ appointments[i].doctorId = appointments[j].doctorId
          /\ IsActive(appointments[i])
          /\ IsActive(appointments[j]) )
        => ~Overlap(StartOf(appointments[i]), StartOf(appointments[j]))

(***************************************************************************)
(* C2: once an appointment is rejected, cancelled or completed, a status   *)
(* update on it is refused and the appointment never changes again.        *)
(***************************************************************************)
C2_TerminalIsFinal ==
    [][ \A i \in DOMAIN appointments :
          appointments[i].status \in TerminalStatuses
          => /\ appointments'[i] = appointments[i]
             /\ (lastResp'.op = "update" /\ lastResp'.id = i) => lastResp'.code # 200
      ]_vars

(***************************************************************************)
(* C3: on a pending or approved appointment a status update (by a caller   *)
(* that has a user document) succeeds only for the five allowed            *)
(* transitions; any other one fails with 403 and changes nothing.          *)
(***************************************************************************)
C3_OnlyAllowedTransitions ==
    [][ ( /\ lastResp'.op = "update"
          /\ lastResp'.caller \in UserDocs
          /\ lastResp'.id \in DOMAIN appointments
          /\ appointments[lastResp'.id].status \in {"pending", "approved"}
          /\ <<appointments[lastResp'.id].status, lastResp'.status>> \notin AllowedTransitions )
        => (lastResp'.code = 403 /\ appointments' = appointments)
      ]_vars

(***************************************************************************)
(* C4: the status of every stored appointment is one of pending, approved, *)
(* rejected, cancelled, completed.                                         *)
(***************************************************************************)
C4_StatusInEnum ==
    \A i \in DOMAIN appointments : appointments[i].status \in Statuses

(***************************************************************************)
(* C5: a book request whose slot overlaps an active (not cancelled, not    *)
(* rejected) appointment of the requested doctor is answered 409 with      *)
(* exactly the overlapping appointments as conflicts, and the store is     *)
(* unchanged.                                                              *)
(***************************************************************************)
C5_ConflictRefused ==
    [][ ( /\ lastResp'.op = "book"
          /\ RespStart(lastResp') # Invalid
          /\ ActiveOverlapping(appointments, lastResp'.doctor_id, RespStart(lastResp')) # {} )
        => /\ lastResp'.code = 409
           /\ lastResp'.conflicts =
                 ActiveOverlapping(appointments, lastResp'.doctor_id, RespStart(lastResp'))
           /\ appointments' = appointments
      ]_vars

C5_Witness ==
    /\ lastResp.op = "book"
    /\ lastResp.code = 409
    /\ lastResp.conflicts # {}
    /\ \E i \in lastResp.conflicts : appointments[i].date # lastResp.date

(***************************************************************************)
(* C6: every appointment write of book is made by a request that stands    *)
(* right after its own conflict scan, the scan was over the requested      *)
(* doctor's stored appointments and slot, and it found no conflict.        *)
(***************************************************************************)
C6_WriteAfterCleanScan ==
    [][ /\ \A w \in Workers :
             (calls'[w].pc = "scanned" /\ calls'[w] # calls[w])
             => /\ calls[w].pc \in {"idle", "done"}
                /\ LET start == ParsedSlot(calls'[w].date, calls'[w].time)
                   IN  IF start = Invalid
                       THEN ~calls'[w].availability.scanned
                       ELSE /\ calls'[w].availability.scanned
                            /\ calls'[w].availability.conflicts =
                                  ActiveOverlapping(appointments, calls'[w].doctor_id, start)
        /\ (appointments' # appointments)
           => \E w \in Workers :
                 /\ calls[w].pc = "scanned"
                 /\ calls'[w].pc = "written"
                 /\ calls[w].availability.scanned
                 /\ calls[w].availability.conflicts = {}
                 /\ appointments' = Append(appointments,
                        [doctorId |-> calls[w].doctor_id, patientId |-> calls[w].uid,
                         date |-> calls[w].date, time |-> calls[w].time,
                         status |-> "pending", updatedAt |-> "created",
                         statusNotes |-> "none"])
      ]_vars

C6_Witness ==
    \E w \in Workers :
        /\ calls[w].pc = "written"
        /\ calls[w].availability.scanned
        /\ Len(appointments) = 2
        /\ appointments[2].doctorId = appointments[1].doctorId
        /\ appointments[2].patientId = calls[w].uid

(***************************************************************************)
(* C7: a successful book request adds exactly one appointment, with status *)
(* pending, patientId the caller's uid, and doctorId, date and time        *)
(* exactly as given in the request.                                        *)
(***************************************************************************)
C7_BookStoresRequest ==
    [][ (lastResp'.op = "book" /\ lastResp'.code = 200)
        => /\ Len(appointments') = Len(appointments) + 1
           /\ SubSeq(appointments', 1, Len(appointments)) = appointments
           /\ lastResp'.id = Len(appointments')
           /\ LET a == appointments'[Len(appointments')]
              IN  /\ a.status = "pending"
                  /\ a.patientId = lastResp'.caller
                  /\ a.doctorId = lastResp'.doctor_id
                  /\ a.date = lastResp'.date
                  /\ a.time = lastResp'.time
      ]_vars

C7_Witness ==
    /\ lastResp.op = "book"
    /\ lastResp.code = 200
    /\ lastResp.id = Len(appointments)
    /\ appointments[lastResp.id].time = T1015
    /\ appointments[lastResp.id].date = LongDate

(***************************************************************************)
(* C8: cancelled and rejected appointments are ignored by conflict checks: *)
(* when no active appointment of the doctor overlaps a well-formed slot,   *)
(* check-availability returns available: true and a book request for the   *)
(* slot succeeds.                                                          *)
(***************************************************************************)
C8_FreedSlotIsAvailable ==
    [][ ( /\ lastResp'.op \in {"check", "book"}
          /\ RespStart(lastResp') # Invalid
          /\ ActiveOverlapping(appointments, lastResp'.doctor_id, RespStart(lastResp')) = {} )
        => /\ lastResp'.code = 200
           /\ lastResp'.available
           /\ lastResp'.conflicts = {}
           /\ (lastResp'.op = "check") => (appointments' = appointments)
           /\ (lastResp'.op = "book") => (Len(appointments') = Len(appointments) + 1)
      ]_vars

C8_Witness ==
    /\ lastResp.op = "book"
    /\ lastResp.code = 200
    /\ \E i \in 1..(Len(appointments) - 1) :
          /\ appointments[i].doctorId = lastResp.doctor_id
          /\ appointments[i].status = "rejected"
          /\ Overlap(StartOf(appointments[i]), RespStart(lastResp))

(***************************************************************************)
(* C9: a status update to approved or rejected on a stored appointment by  *)
(* a caller whose stored role is not doctor fails with 403 and leaves the  *)
(* appointment unchanged.                                                  *)
(***************************************************************************)
C9_OnlyDoctorsDecide ==
    [][ ( /\ lastResp'.op = "update"
          /\ lastResp'.status \in {"approved", "rejected"}
          /\ lastResp'.id \in DOMAIN appointments
          /\ lastResp'.caller \in UserDocs
          /\ UserRole(lastResp'.caller) # "doctor" )
        => (lastResp'.code = 403 /\ appointments' = appointments)
      ]_vars

C9_Witness ==
    /\ lastResp.op = "update"
    /\ lastResp.status = "rejected"
    /\ lastResp.caller \in Patients
    /\ lastResp.id \in DOMAIN appointments
    /\ appointments[lastResp.id].patientId = lastResp.caller
    /\ lastResp.code = 403

(***************************************************************************)
(* C10: a patient who requests cancelled on another user's appointment     *)
(* gets 403 and the appointment is unchanged; a patient cancelling their   *)
(* own pending appointment succeeds and the stored status becomes          *)
(* cancelled.                                                              *)
(***************************************************************************)
C10_PatientCancelsOwnOnly ==
    [][ ( /\ lastResp'.op = "update"
          /\ lastResp'.status = "cancelled"
          /\ lastResp'.id \in DOMAIN appointments
          /\ lastResp'.caller \in UserDocs
          /\ UserRole(lastResp'.caller) = "patient" )
        => LET i == lastResp'.id
           IN  /\ (appointments[i].patientId # lastResp'.caller)
                  => (lastResp'.code = 403 /\ appointments' = appointments)
               /\ (appointments[i].patientId = lastResp'.caller
                     /\ appointments[i].status = "pending")
                  => /\ lastResp'.code = 200
                     /\ appointments' = [appointments EXCEPT ![i].status = "cancelled",
                                                           ![i].updatedAt = "updated"]
      ]_vars

C10_Witness ==
    /\ lastResp.op = "update"
    /\ lastResp.status = "cancelled"
    /\ lastResp.caller \in Patients
    /\ lastResp.code = 403
    /\ lastResp.id \in DOMAIN appointments
    /\ appointments[lastResp.id].patientId \in Patients \ {lastResp.caller}
    /\ appointments[lastResp.id].status = "pending"
    /\ \E j \in DOMAIN appointments :
          /\ appointments[j].patientId = lastResp.caller
          /\ appointments[j].status = "cancelled"

(***************************************************************************)
(* Vocabulary of the notification properties.                              *)
(***************************************************************************)
Count(steps, step) == Cardinality({ i \in DOMAIN steps : steps[i] = step })
\* Some step named `later` comes after some step named `earlier`.
Follows(steps, earlier, later) ==
    \E i, j \in DOMAIN steps : i < j /\ steps[i] = earlier /\ steps[j] = later
\* A channel of the service was called for the patient.
Attempted(n) == \E i \in DOMAIN n.steps : n.steps[i] \in {"send_sms", "send_email"}
\* The appointment carries a patient phone; it always carries an email.
CarriesPhone(a) == RequestPhone(a.patientId)
CarriesEmail(a) == a.patientId \in Patients \cup {"u0"}

(***************************************************************************)
(* C11: a status-update request naming an appointment id that is not in    *)
(* the store fails with 404, writes nothing to the store and attempts no   *)
(* notification.                                                           *)
(***************************************************************************)
C11_UnknownIdNotFound ==
    [][ (lastResp'.op = "update" /\ lastResp'.id \notin DOMAIN appointments)
        => /\ lastResp'.code = 404
           /\ appointments' = appointments
           /\ notify'.steps = <<>>
      ]_vars

\* A doctor with a user document names an id beyond the stored appointments.
C11_Witness ==
    /\ lastResp.op = "update"
    /\ lastResp.code = 404
    /\ lastResp.caller \in Doctors
    /\ appointments # <<>>
    /\ lastResp.id \notin DOMAIN appointments
    /\ notify.steps = <<>>

(***************************************************************************)
(* C12: each slot listed by available-slots is marked available exactly    *)
(* when check-availability for the same doctor, the same day and that      *)
(* slot's time returns available: true, whichever of the two accepted      *)
(* date formats the stored appointments use.                               *)
(***************************************************************************)
C12_SlotsAgreeWithCheck ==
    [][ (lastResp'.op = "slots" /\ lastResp'.code = 200)
        => \A k \in DOMAIN lastResp'.slots :
              lastResp'.slots[k].available
                 = check_time_slot_availability(appointments, lastResp'.doctor_id,
                       lastResp'.date, lastResp'.slots[k].time).available
      ]_vars

(***************************************************************************)
(* C13: check-availability lists appointment X in conflicts exactly when   *)
(* X belongs to the requested doctor, is neither cancelled nor rejected    *)
(* and starts less than 30 minutes before or after the requested instant,  *)
(* and returns available: false exactly when some X is listed; with a      *)
(* pending appointment at 10:00 AM, 10:15 AM is unavailable with that      *)
(* appointment in conflicts and 10:30 AM is not in conflict with it.       *)
(***************************************************************************)
StartsWithin30(a, instant) ==
    /\ StartOf(a) - instant < 30
    /\ instant - StartOf(a) < 30

C13_ConflictsExact ==
    [][ (lastResp'.op = "check" /\ RespStart(lastResp') # Invalid)
        => /\ lastResp'.code = 200
           /\ \A x \in DOMAIN appointments :
                 (x \in lastResp'.conflicts)
                    <=> ( /\ appointments[x].doctorId = lastResp'.doctor_id
                          /\ appointments[x].status \notin {"cancelled", "rejected"}
                          /\ StartsWithin30(appointments[x], RespStart(lastResp')) )
           /\ lastResp'.conflicts \subseteq DOMAIN appointments
           /\ lastResp'.available <=> (lastResp'.conflicts = {})
           /\ \A x \in DOMAIN appointments :
                 ( /\ appointments[x].doctorId = lastResp'.doctor_id
                   /\ appointments[x].status = "pending"
                   /\ appointments[x].time = T1000 )
                 => /\ (lastResp'.time = T1015)
                         => (~lastResp'.available /\ x \in lastResp'.conflicts)
                    /\ (lastResp'.time = T1030) => (x \notin lastResp'.conflicts)
      ]_vars

\* A 10:30 AM request found available by a doctor who has a pending
\* appointment at 10:00 AM.
C13_Witness ==
    /\ lastResp.op = "check"
    /\ lastResp.time = T1030
    /\ lastResp.available
    /\ \E x \in DOMAIN appointments :
          /\ appointments[x].doctorId = lastResp.doctor_id
          /\ appointments[x].status = "pending"
          /\ appointments[x].time = T1000

C15_EmptyDayAllAvailable ==
    [][ ( /\ lastResp'.op = "slots"
          /\ ParsedIsoDates[lastResp'.date] # Invalid
          /\ \A i \in DOMAIN appointments : appointments[i].doctorId # lastResp'.doctor_id )
        => /\ lastResp'.code = 200
           /\ Len(lastResp'.slots) = 16
           /\ \A k \in DOMAIN lastResp'.slots : lastResp'.slots[k].available
           /\ lastResp'.total_slots = 16
           /\ lastResp'.available_slots = 16
           /\ lastResp'.slots[1].time = <<"0","9",":","0","0"," ","A","M">>
           /\ lastResp'.slots[16].time = <<"0","4",":","3","0"," ","P","M">>
      ]_vars

\* The listing of a doctor without appointments while another doctor has one.
C15_Witness ==
    /\ lastResp.op = "slots"
    /\ lastResp.code = 200
    /\ lastResp.total_slots = 16
    /\ appointments # <<>>
    /\ \A i \in DOMAIN appointments : appointments[i].doctorId # lastResp.doctor_id

(***************************************************************************)
(* C16: a failure of a notification step during book or status-update      *)
(* (service construction, SMS send, email send) never turns the request    *)
(* into an error and never undoes the write: the response is a success     *)
(* and the created appointment or the new status is in the store.          *)
(***************************************************************************)
C16_NotificationFailureSwallowed ==
    [][ ( /\ lastResp'.op \in {"book", "update"}
          /\ (notify'.raised \/ notify'.sms = "failed" \/ notify'.email = "failed") )
        => /\ lastResp'.code = 200
           /\ (lastResp'.op = "book")
                 => appointments' = Append(appointments,
                        [doctorId |-> lastResp'.doctor_id, patientId |-> lastResp'.caller,
                         date |-> lastResp'.date, time |-> lastResp'.time,
                         status |-> "pending", updatedAt |-> "created",
                         statusNotes |-> "none"])
           /\ (lastResp'.op = "update")
                 => /\ lastResp'.id \in DOMAIN appointments
                    /\ appointments' =
                          [appointments EXCEPT ![lastResp'.id].status = lastResp'.status,
                                               ![lastResp'.id].updatedAt = "updated"]
      ]_vars

\* A booking whose service construction failed, in the store all the same.
C16_Witness ==
    /\ lastResp.op = "book"
    /\ notify.raised
    /\ lastResp.code = 200
    /\ lastResp.id = Len(appointments)
    /\ appointments[lastResp.id].patientId = lastResp.caller

(***************************************************************************)
(* C17: every status-update request that succeeds makes a notification     *)
(* attempt to the patient whenever the appointment carries a patient       *)
(* email or phone, whether or not a user document exists for the patient.  *)
(***************************************************************************)
C17_UpdateAlwaysNotifies ==
    [][ ( /\ lastResp'.op = "update"
          /\ lastResp'.code = 200
          /\ lastResp'.id \in DOMAIN appointments
          /\ (CarriesEmail(appointments[lastResp'.id])
                \/ CarriesPhone(appointments[lastResp'.id])) )
        => Attempted(notify')
      ]_vars

(***************************************************************************)
(* C18: a status update pending -> approved requested by the appointment's *)
(* doctor succeeds and causes exactly one email send through the email     *)
(* provider and, if a phone number is present and SMS is configured,       *)
(* exactly one SMS send through the SMS provider.                          *)
(***************************************************************************)
C18_ApproveSendsOnce ==
    [][ ( /\ lastResp'.op = "update"
          /\ lastResp'.status = "approved"
          /\ lastResp'.id \in DOMAIN appointments
          /\ appointments[lastResp'.id].status = "pending"
          /\ lastResp'.caller = appointments[lastResp'.id].doctorId )
        => /\ lastResp'.code = 200
           /\ Count(notify'.steps, "EmailProvider.send") = 1
           /\ (CarriesPhone(appointments[lastResp'.id]) /\ settings.sms)
                 => Count(notify'.steps, "SMSProvider.send") = 1
      ]_vars

(***************************************************************************)
(* C19: when SMTP is configured and the mail server accepts the message,   *)
(* POST /api/notify/test with an email address returns 200 with            *)
(* email.success = true.                                                   *)
(***************************************************************************)
C19_TestEmailSucceeds ==
    [][ ( /\ lastResp'.op = "test"
          /\ settings.smtp
          /\ notify'.smtp_failures = 0 )
        => /\ lastResp'.code = 200
           /\ notify'.email = "ok"
      ]_vars

(***************************************************************************)
(* C20: a channel send that fails does not prevent the other channel from  *)
(* being attempted: in send_notification a failed email send is still      *)
(* followed by the SMS attempt when SMS is applicable, and in the booking  *)
(* and status-update paths a failed SMS send is still followed by the      *)
(* email attempt.                                                          *)
(***************************************************************************)
C20_ChannelsIsolated ==
    [][ /\ ( /\ lastResp'.op = "notify_upload"
             /\ notify'.email = "failed"
             /\ SmsPreference(lastResp'.caller)
             /\ DocPhone(lastResp'.caller)
             /\ settings.sms )
           => /\ Follows(notify'.steps, "EmailProvider.send", "_send_sms_notification")
              /\ Follows(notify'.steps, "_send_sms_notification", "SMSProvider.send")
              /\ notify'.sms # "none"
        /\ ( /\ lastResp'.op \in {"book", "update"}
             /\ notify'.sms = "failed" )
           => /\ Follows(notify'.steps, "send_sms", "send_email")
              /\ notify'.email # "none"
      ]_vars

\* A dispatch whose email was refused three times and whose SMS was sent.
C20_Witness ==
    /\ lastResp.op = "notify_upload"
    /\ notify.email = "failed"
    /\ Count(notify.steps, "EmailProvider.send") = RetryAttempts
    /\ notify.sms = "ok"
    /\ Follows(notify.steps, "EmailProvider.send", "SMSProvider.send")

(***************************************************************************)
(* Vocabulary of the dispatcher properties: the channel was entered, and   *)
(* what the patient document says.                                         *)
(***************************************************************************)
EmailAttempted(n) == Count(n.steps, "_send_email_notification") > 0
SmsAttempted(n) == Count(n.steps, "_send_sms_notification") > 0
HasEmail(patient) == patient.email = "set"
HasPhone(patient) == patient.phone = "set"

(***************************************************************************)
(* C21: send_notification always returns a result to its caller and raises *)
(* nothing, whatever the channel sends and the record write do: the call   *)
(* runs to the record step, an email channel whose three sends were all    *)
(* refused and an SMS channel that Twilio refused each come back as a      *)
(* failed result carrying an error, and a failed record write changes      *)
(* neither channel result.                                                 *)
(***************************************************************************)
C21_AlwaysReturnsResult ==
    [][ lastResp'.op = "send_notification"
        => /\ ~notify'.raised
           /\ notify'.steps[Len(notify'.steps)] = "_create_notification_record"
           /\ notify'.email \in {"ok", "failed", "none"}
           /\ notify'.sms \in {"ok", "failed", "none"}
           /\ (EmailAttempted(notify') /\ notify'.smtp_failures >= RetryAttempts
                 => notify'.email = "failed" /\ notify'.email_error # "none")
           /\ (EmailAttempted(notify') /\ notify'.smtp_failures < RetryAttempts
                 => notify'.email = "ok")
           /\ (SmsAttempted(notify') /\ notify'.twilio_failures > 0
                 => notify'.sms = "failed" /\ notify'.sms_error # "none")
           /\ (SmsAttempted(notify') /\ notify'.twilio_failures = 0
                 => notify'.sms = "ok")
      ]_vars

\* A dispatch whose email was refused three times, whose SMS Twilio
\* refused and whose record write failed, returned with two failed results.
C21_Witness ==
    /\ lastResp.op = "send_notification"
    /\ notify.smtp_failures = RetryAttempts
    /\ notify.twilio_failures > 0
    /\ ~notify.db_ok
    /\ Count(notify.steps, "EmailProvider.send") = RetryAttempts
    /\ Count(notify.steps, "messages.create") = 1
    /\ notify.email = "failed"
    /\ notify.sms = "failed"
    /\ ~notify.raised

(***************************************************************************)
(* C22: after every send_notification call whose record write the database *)
(* accepts, a notification record has been written, whether each channel   *)
(* succeeded, failed or was skipped.                                       *)
(***************************************************************************)
C22_RecordAlwaysWritten ==
    [][ lastResp'.op = "send_notification" /\ notify'.db_ok
        => /\ Count(notify'.steps, "_create_notification_record") = 1
           /\ notify'.recorded
      ]_vars

(***************************************************************************)
(* C23, as stated: send_notification attempts the SMS channel if and only  *)
(* if the patient has a phone number, SMS is configured and, when the      *)
(* patient has preferences, smsNotifications is not explicitly false.      *)
(***************************************************************************)
C23_SmsUnlessOptedOut ==
    [][ lastResp'.op = "send_notification"
        => ( SmsAttempted(notify')
             <=> /\ HasPhone(notify'.patient)
                 /\ settings.sms
                 /\ (notify'.patient.preferences
                       => notify'.patient.smsNotifications # "false") )
      ]_vars

(***************************************************************************)
(* C23, amended: send_notification attempts the SMS channel if and only if *)
(* the patient has a phone number, SMS is configured and the patient's     *)
(* preferences set smsNotifications to true.                               *)
(***************************************************************************)
C23_SmsWhenOptedIn ==
    [][ lastResp'.op = "send_notification"
        => ( SmsAttempted(notify')
             <=> /\ HasPhone(notify'.patient)
                 /\ settings.sms
                 /\ notify'.patient.preferences
                 /\ notify'.patient.smsNotifications = "true" )
      ]_vars

\* A dispatch for a patient with a phone who opted in, with Twilio
\* configured: the SMS channel was entered and the Twilio API called.
C23_Witness ==
    /\ lastResp.op = "send_notification"
    /\ HasPhone(notify.patient)
    /\ settings.sms
    /\ notify.patient.smsNotifications = "true"
    /\ SmsAttempted(notify)
    /\ Count(notify.steps, "messages.create") = 1

(***************************************************************************)
(* C24: send_notification attempts the email channel if and only if the    *)
(* patient has a non-empty email address and emailNotifications is not     *)
(* explicitly false.                                                       *)
(***************************************************************************)
C24_EmailUnlessOptedOut ==
    [][ lastResp'.op = "send_notification"
        => ( EmailAttempted(notify')
             <=> /\ HasEmail(notify'.patient)
                 /\ notify'.patient.emailNotifications # "false" )
      ]_vars

\* A dispatch for a patient with an email whose preferences do not mention
\* emailNotifications: the email channel was entered and the provider
\* called.
C24_Witness ==
    /\ lastResp.op = "send_notification"
    /\ HasEmail(notify.patient)
    /\ notify.patient.preferences
    /\ notify.patient.emailNotifications = "unset"
    /\ EmailAttempted(notify)
    /\ Count(notify.steps, "EmailProvider.send") >= 1

(***************************************************************************)
(* C25: for a patient without preferences send_notification attempts the   *)
(* email when the patient has an email address, and does not attempt the   *)
(* SMS, even with a phone number present and SMS configured.               *)
(***************************************************************************)
C25_DefaultsEmailOnly ==
    [][ lastResp'.op = "send_notification" /\ ~notify'.patient.preferences
        => /\ (HasEmail(notify'.patient) => EmailAttempted(notify'))
           /\ ~SmsAttempted(notify')
           /\ Count(notify'.steps, "SMSProvider.send") = 0
      ]_vars

\* A dispatch for a patient without preferences who has an email and a
\* phone, with Twilio configured: email attempted, SMS not.
C25_Witness ==
    /\ lastResp.op = "send_notification"
    /\ ~notify.patient.preferences
    /\ HasEmail(notify.patient)
    /\ HasPhone(notify.patient)
    /\ settings.sms
    /\ EmailAttempted(notify)
    /\ ~SmsAttempted(notify)

(***************************************************************************)
(* C26: a call of EmailProvider.send makes at most 3 delivery attempts; it *)
(* returns at the first attempt the mail server accepts, and when the      *)
(* server refuses every attempt it stops after exactly 3 and reports the   *)
(* failure to its caller (it raises).                                      *)
(***************************************************************************)
C26_EmailRetriesBounded ==
    [][ lastResp'.op = "EmailProvider.send"
        => /\ Count(notify'.steps, "EmailProvider.send") <= 3
           /\ (notify'.smtp_failures < 3
                 => /\ Count(notify'.steps, "EmailProvider.send") = notify'.smtp_failures + 1
                    /\ notify'.email = "ok"
                    /\ ~notify'.raised)
           /\ (notify'.smtp_failures >= 3
                 => /\ Count(notify'.steps, "EmailProvider.send") = 3
                    /\ notify'.email = "raised"
                    /\ notify'.raised)
      ]_vars

\* A call whose every attempt the mail server refused: three attempts, then
\* the failure reached the caller.
C26_Witness ==
    /\ lastResp.op = "EmailProvider.send"
    /\ notify.smtp_failures > 3
    /\ Count(notify.steps, "EmailProvider.send") = 3
    /\ notify.raised

(***************************************************************************)
(* C27: with SMS configured, SMSProvider.send re-attempts a delivery that  *)
(* fails: when Twilio refuses the first attempts and would accept a later  *)
(* one of the three the call returns success, and a delivery Twilio keeps  *)
(* refusing is attempted 3 times before a failed result is returned.       *)
(***************************************************************************)
C27_SmsRetries ==
    [][ lastResp'.op = "SMSProvider.send" /\ settings.sms
        => /\ (notify'.twilio_failures < 3
                 => /\ notify'.sms = "ok"
                    /\ Count(notify'.steps, "messages.create") = notify'.twilio_failures + 1)
           /\ (notify'.twilio_failures >= 3
                 => /\ notify'.sms = "failed"
                    /\ Count(notify'.steps, "messages.create") = 3)
      ]_vars

(***************************************************************************)
(* C28: with a Twilio credential missing, no path (send_notification,      *)
(* send_sms, SMSProvider.send) calls the Twilio API and the provider is    *)
(* entered at most once; an SMS that was asked of send_sms or of the       *)
(* provider comes back failed with a "not configured" error; and the email *)
(* result of the same dispatch is the one the dispatch has with Twilio     *)
(* configured.                                                             *)
(***************************************************************************)
SmsRequested(n) ==
    Count(n.steps, "send_sms") > 0 \/ Count(n.steps, "SMSProvider.send") > 0

SmsConfigured(cfg) == [cfg EXCEPT !.sms = TRUE]

C28_UnconfiguredSmsInert ==
    [][ ~settings.sms /\ lastResp'.op \in {"send_notification", "test", "SMSProvider.send"}
        => /\ Count(notify'.steps, "messages.create") = 0
           /\ Count(notify'.steps, "SMSProvider.send") <= 1
           /\ (SmsRequested(notify')
                 => notify'.sms = "failed" /\ notify'.sms_error = "not configured")
           /\ (lastResp'.op = "send_notification"
                 => /\ notify'.email
                        = send_notification(SmsConfigured(settings), notify'.patient, TRUE,
                                            notify'.smtp_failures, notify'.db_ok).email
                    /\ notify'.email_error
                        = send_notification(SmsConfigured(settings), notify'.patient, TRUE,
                                            notify'.smtp_failures, notify'.db_ok).email_error)
           /\ (lastResp'.op = "test"
                 => /\ lastResp'.code
                        = test_notification(SmsConfigured(settings),
                                            Count(notify'.steps, "send_sms") > 0, TRUE).code
                    /\ notify'.email
                        = test_notification(SmsConfigured(settings),
                                            Count(notify'.steps, "send_sms") > 0,
                                            TRUE).notify.email)
      ]_vars

\* A test dispatch to an email and a phone with the Twilio settings
\* missing: the email was sent for, the SMS came back "not configured"
\* without the provider being entered.
C28_Witness ==
    /\ ~settings.sms
    /\ lastResp.op = "test"
    /\ lastResp.code = 200
    /\ Count(notify.steps, "send_email") = 1
    /\ Count(notify.steps, "send_sms") = 1
    /\ Count(notify.steps, "messages.create") = 0
    /\ notify.sms = "failed"
    /\ notify.sms_error = "not configured"

(***************************************************************************)
(* C29: a check-availability or book request whose date is in neither      *)
(* accepted format, or whose time is not 'HH:MM AM/PM', is answered 400;   *)
(* such a book request leaves the store as it was and attempts no          *)
(* notification.                                                           *)
(***************************************************************************)
MalformedSlot(date, time) == date = BadDate \/ time = BadTime

C29_MalformedSlotRejected ==
    [][ /\ lastResp'.op \in {"check", "book"}
        /\ MalformedSlot(lastResp'.date, lastResp'.time)
        => /\ lastResp'.code = 400
           /\ appointments' = appointments
           /\ (lastResp'.op = "book" => notify'.steps = <<>> /\ ~notify'.raised)
      ]_vars

\* A book request with a malformed slot answered 400 while an appointment
\* of the same doctor is stored; nothing was added or sent.
C29_Witness ==
    /\ lastResp.op = "book"
    /\ MalformedSlot(lastResp.date, lastResp.time)
    /\ lastResp.code = 400
    /\ Len(appointments) = 1
    /\ notify = NoNotify

(***************************************************************************)
(* C30: two book requests for the same doctor and overlapping slots served *)
(* concurrently can both pass the availability check before either write   *)
(* lands, both succeed and leave two overlapping active appointments of    *)
(* that doctor.  What makes the interleaving possible: a request whose     *)
(* check found the slot free writes its appointment and succeeds whatever  *)
(* the store holds by then; C30_Witness is the end of the interleaving.    *)
(***************************************************************************)
C30_WriteTrustsEarlierCheck ==
    [][ \A w \in Workers :
          ( /\ calls[w].pc = "scanned"
            /\ calls'[w].pc # "scanned"
            /\ calls[w].availability.code = 200
            /\ calls[w].availability.available )
          => /\ calls'[w].pc = "written"
             /\ calls'[w].code = 200
             /\ appointments' = Append(appointments,
                    [doctorId |-> calls[w].doctor_id, patientId |-> calls[w].uid,
                     date |-> calls[w].date, time |-> calls[w].time,
                     status |-> "pending", updatedAt |-> "created",
                     statusNotes |-> "none"])
      ]_vars

\* Both workers returned success on checks that found no conflict, and the
\* store holds their two appointments: same doctor, both active, different
\* slots that overlap.
C30_Witness ==
    /\ \A w \in Workers : /\ calls[w].pc = "done"
                          /\ calls[w].code = 200
                          /\ calls[w].availability.scanned
                          /\ calls[w].availability.conflicts = {}
    /\ Len(appointments) = 2
    /\ appointments[1].doctorId = appointments[2].doctorId
    /\ IsActive(appointments[1]) /\ IsActive(appointments[2])
    /\ StartOf(appointments[1]) # StartOf(appointments[2])
    /\ Overlap(StartOf(appointments[1]), StartOf(appointments[2]))
    /\ \E w1, w2 \in Workers :
          /\ w1 # w2
          /\ appointments[1].patientId = calls[w1].uid
          /\ appointments[1].time = calls[w1].time
          /\ appointments[2].patientId = calls[w2].uid
          /\ appointments[2].time = calls[w2].time

(***************************************************************************)
(* C31: when two status-update requests on the same appointment run        *)
(* concurrently and both pass their permission checks, neither is rejected *)
(* because of the other: each one's update is applied whatever the         *)
(* document holds by then, the request succeeds, and the stored status is  *)
(* the one written last.                                                   *)
(***************************************************************************)
C31_LastWriteWins ==
    [][ \A w \in Workers :
          (calls[w].pc = "checked" /\ calls'[w].pc # "checked")
          => /\ calls'[w].pc = "updated"
             /\ calls'[w].code = 200
             /\ appointments' = [appointments EXCEPT
                                   ![calls[w].appointment_id].status = calls[w].status,
                                   ![calls[w].appointment_id].updatedAt = "updated"]
      ]_vars

\* Both workers read the appointment while it was pending, asked for
\* different statuses and returned success; the store holds the status of
\* one of them (the later write).
C31_Witness ==
    /\ \A w \in Workers : /\ calls[w].pc = "done"
                          /\ calls[w].code = 200
                          /\ calls[w].seen = "pending"
                          /\ calls[w].appointment_id = 1
    /\ calls["w1"].status = "approved"
    /\ calls["w2"].status = "cancelled"
    /\ appointments[1].status = "approved"

(***************************************************************************)
(* C32: a status-update request from a caller who is neither the patient   *)
(* (patientId) nor the doctor (doctorId) of the addressed appointment      *)
(* never changes the appointment, whatever status it asks for.             *)
(***************************************************************************)
C32_OutsiderChangesNothing ==
    [][ ( /\ lastResp'.op = "update"
          /\ lastResp'.id \in DOMAIN appointments
          /\ lastResp'.caller # appointments[lastResp'.id].patientId
          /\ lastResp'.caller # appointments[lastResp'.id].doctorId )
        => /\ appointments' = appointments
           /\ lastResp'.code # 200
      ]_vars

(***************************************************************************)
(* C33: an aborted request (a booking refused with 409 or 400, a status    *)
(* update refused with 403 or 404) attempts no notification and writes     *)
(* nothing; in a successful request every step of the notification block   *)
(* comes after the appointment write.                                      *)
(***************************************************************************)
WriteSteps == {"appointment_ref.set", "appointment_ref.update"}

C33_NotifyOnlyAfterWrite ==
    [][ /\ ( \/ (lastResp'.op = "book" /\ lastResp'.code \in {400, 409})
             \/ (lastResp'.op = "update" /\ lastResp'.code \in {403, 404}) )
           => /\ notify'.steps = <<>>
              /\ notify'.sms = "none" /\ notify'.email = "none"
              /\ appointments' = appointments
        /\ (lastResp'.op \in {"book", "update"} /\ lastResp'.code = 200)
           => /\ (lastResp'.op = "book" => Len(appointments') = Len(appointments) + 1)
              /\ (lastResp'.op = "update"
                    => appointments'[lastResp'.id].status = lastResp'.status)
              /\ notify'.steps # <<>>
              /\ notify'.steps[1] \in WriteSteps
              /\ \A i \in DOMAIN notify'.steps :
                    notify'.steps[i] \in WriteSteps => i = 1
      ]_vars

\* A successful approval whose notification block called both channels,
\* after the update of the document.
C33_Witness ==
    /\ lastResp.op = "update"
    /\ lastResp.code = 200
    /\ notify.steps[1] = "appointment_ref.update"
    /\ Follows(notify.steps, "appointment_ref.update", "send_sms")
    /\ Follows(notify.steps, "appointment_ref.update", "send_email")

(***************************************************************************)
(* C34: a successful status update changes, of the addressed appointment,  *)
(* only status (to the requested one), updatedAt (to the time of the       *)
(* update) and, when the request carries notes, statusNotes (to the        *)
(* notes); its doctorId, patientId, date and time keep their values, it    *)
(* gains and loses no field, and every other appointment is unchanged.     *)
(***************************************************************************)
NotesSupplied(notes) == notes \notin {"absent", "empty"}

C34_UpdateFrame ==
    [][ (lastResp'.op = "update" /\ lastResp'.code = 200)
        => /\ DOMAIN appointments' = DOMAIN appointments
           /\ \A j \in DOMAIN appointments :
                 j # lastResp'.id => appointments'[j] = appointments[j]
           /\ DOMAIN appointments'[lastResp'.id] = DOMAIN appointments[lastResp'.id]
           /\ \A f \in {"doctorId", "patientId", "date", "time"} :
                 appointments'[lastResp'.id][f] = appointments[lastResp'.id][f]
           /\ appointments'[lastResp'.id].status = lastResp'.status
           /\ appointments'[lastResp'.id].updatedAt = "updated"
           /\ appointments'[lastResp'.id].statusNotes
                = IF NotesSupplied(lastResp'.notes) THEN lastResp'.notes
                  ELSE appointments[lastResp'.id].statusNotes
      ]_vars

\* A successful update without notes of an appointment that carries the
\* notes of an earlier update, next to an appointment never updated.
C34_Witness ==
    /\ lastResp.op = "update"
    /\ lastResp.code = 200
    /\ lastResp.notes = "absent"
    /\ Len(appointments) = 2
    /\ appointments[lastResp.id].statusNotes = "n1"
    /\ appointments[lastResp.id].status = lastResp.status
    /\ \E j \in DOMAIN appointments :
          j # lastResp.id /\ appointments[j].updatedAt = "created"

(***************************************************************************)
(* C35: is_time_slot_conflict gives the same answer with its two instants  *)
(* exchanged, for every duration, and answers true for two equal instants  *)
(* when the duration is greater than 0.                                    *)
(***************************************************************************)
C35_ConflictSymmetric ==
    lastResp.op = "is_time_slot_conflict"
    => /\ lastResp.conflict = lastResp.conflict_swapped
       /\ (lastResp.slot1 = lastResp.slot2 /\ lastResp.duration_minutes > 0
             => lastResp.conflict)

\* The call on two different instants that conflict, in both orders.
C35_Witness ==
    /\ lastResp.op = "is_time_slot_conflict"
    /\ lastResp.slot1 < lastResp.slot2
    /\ lastResp.duration_minutes = 15
    /\ lastResp.conflict
    /\ lastResp.conflict_swapped

(***************************************************************************)
(* C36: is_time_slot_conflict(a, b, d) is true exactly when a < b + d and  *)
(* b < a + d; with d = 30 two slots exactly 30 minutes apart do not        *)
(* conflict and two slots 15 minutes apart do.                             *)
(***************************************************************************)
Apart(a, b) == IF a < b THEN b - a ELSE a - b

C36_ConflictIsHalfOpenOverlap ==
    lastResp.op = "is_time_slot_conflict"
    => /\ lastResp.conflict
            <=> ( /\ lastResp.slot1 < lastResp.slot2 + lastResp.duration_minutes
                  /\ lastResp.slot2 < lastResp.slot1 + lastResp.duration_minutes )
       /\ (lastResp.duration_minutes = 30 /\ Apart(lastResp.slot1, lastResp.slot2) = 30
             => ~lastResp.conflict)
       /\ (lastResp.duration_minutes = 30 /\ Apart(lastResp.slot1, lastResp.slot2) = 15
             => lastResp.conflict)

\* The call on 09:00 and 09:30 with 30 minutes: no conflict.
C36_Witness ==
    /\ lastResp.op = "is_time_slot_conflict"
    /\ lastResp.slot1 = 540
    /\ lastResp.slot2 = 570
    /\ lastResp.duration_minutes = 30
    /\ ~lastResp.conflict

(***************************************************************************)
(* Vocabulary of the slot listing: the start instant of the k-th slot of   *)
(* the listed day, counted from 09:00 in steps of 30 minutes.              *)
(***************************************************************************)
Listed(r) == r.op = "slots" /\ r.code = 200
SlotStart(r, k) == ParsedIsoDates[r.date] * 1440 + 540 + 30 * (k - 1)

(***************************************************************************)
(* C37: for every date in YYYY-MM-DD form and every store content,         *)
(* available-slots answers with exactly 16 slots, the first at 09:00 AM    *)
(* and the last at 04:30 PM, each 30 minutes after the one before;         *)
(* total_slots is 16 and available_slots is the number of slots marked     *)
(* available.                                                              *)
(***************************************************************************)
C37_SixteenOrderedSlots ==
    lastResp.op = "slots"
    => /\ (lastResp.date = IsoDate => lastResp.code = 200)
       /\ lastResp.code = 200
          => /\ Len(lastResp.slots) = 16
             /\ lastResp.slots[1].time = <<"0","9",":","0","0"," ","A","M">>
             /\ lastResp.slots[16].time = <<"0","4",":","3","0"," ","P","M">>
             /\ \A k \in 1..15 :
                   ParseTime(lastResp.slots[k + 1].time)
                      = ParseTime(lastResp.slots[k].time) + 30
             /\ lastResp.total_slots = 16
             /\ lastResp.available_slots
                   = Cardinality({ k \in DOMAIN lastResp.slots : lastResp.slots[k].available })

\* A listing of a day on which the doctor has an active appointment: 16
\* slots, fewer than 16 available.
C37_Witness ==
    /\ Listed(lastResp)
    /\ lastResp.total_slots = 16
    /\ lastResp.available_slots = 14
    /\ \E i \in DOMAIN appointments : appointments[i].doctorId = lastResp.doctor_id

(***************************************************************************)
(* C38: every slot that available-slots marks unavailable carries the id   *)
(* and status of a stored appointment of that doctor that is neither       *)
(* cancelled nor rejected and whose interval overlaps the slot (whichever  *)
(* of the marking appointments the query yields last); every slot marked   *)
(* available carries no appointment id.                                    *)
(***************************************************************************)
C38_UnavailableNamesOverlap ==
    Listed(lastResp)
    => \A k \in DOMAIN lastResp.slots :
          /\ ~lastResp.slots[k].available
             => /\ lastResp.slots[k].booked_by # {}
                /\ \A i \in lastResp.slots[k].booked_by :
                      /\ i \in DOMAIN appointments
                      /\ appointments[i].doctorId = lastResp.doctor_id
                      /\ IsActive(appointments[i])
                      /\ StartOf(appointments[i]) # Invalid
                      /\ Overlap(StartOf(appointments[i]), SlotStart(lastResp, k))
          /\ lastResp.slots[k].available => lastResp.slots[k].booked_by = {}

\* A listing with a slot marked by a pending appointment while the same
\* doctor also has a cancelled one that marks nothing.
C38_Witness ==
    /\ Listed(lastResp)
    /\ \E k \in DOMAIN lastResp.slots :
          /\ ~lastResp.slots[k].available
          /\ \E i \in lastResp.slots[k].booked_by : appointments[i].status = "pending"
    /\ \E j \in DOMAIN appointments :
          /\ appointments[j].doctorId = lastResp.doctor_id
          /\ appointments[j].status = "cancelled"
          /\ \A k \in DOMAIN lastResp.slots : j \notin lastResp.slots[k].booked_by

(***************************************************************************)
(* C39: for every slot available-slots lists for a date, parse_time_slot   *)
(* of that date and the slot's time string is the slot's start instant,    *)
(* and two different slots parse to different instants.                    *)
(***************************************************************************)
C39_SlotTimesParseBack ==
    Listed(lastResp)
    => /\ \A k \in DOMAIN lastResp.slots :
             ParsedSlot(lastResp.date, lastResp.slots[k].time) = SlotStart(lastResp, k)
       /\ \A k, l \in DOMAIN lastResp.slots :
             k # l => ParsedSlot(lastResp.date, lastResp.slots[k].time)
                        # ParsedSlot(lastResp.date, lastResp.slots[l].time)

\* A listing whose noon slot reads 12:00 PM and parses to 12:00 of the day.
C39_Witness ==
    /\ Listed(lastResp)
    /\ lastResp.slots[7].time = <<"1","2",":","0","0"," ","P","M">>
    /\ ParsedSlot(lastResp.date, lastResp.slots[7].time)
          = ParsedIsoDates[lastResp.date] * 1440 + 720

(***************************************************************************)
(* Vocabulary of the order of a dispatch: the positions, in the order the  *)
(* dispatch runs its steps, at which a channel starts and at which it has  *)
(* resolved.                                                               *)
(***************************************************************************)
EmailSteps == {"_send_email_notification", "EmailProvider.send"}
SmsSteps == {"_send_sms_notification", "SMSProvider.send", "messages.create"}
StartsAt(steps, channel) ==
    CHOOSE i \in DOMAIN steps :
        steps[i] \in channel /\ \A j \in DOMAIN steps : steps[j] \in channel => i <= j
ResolvesAt(steps, channel) ==
    CHOOSE i \in DOMAIN steps :
        steps[i] \in channel /\ \A j \in DOMAIN steps : steps[j] \in channel => j <= i

(***************************************************************************)
(* C40: within one dispatch that attempts both channels, the email and the *)
(* SMS attempt proceed concurrently, neither starting only after the other *)
(* has resolved, and the result goes back to the caller only after both    *)
(* have resolved.                                                          *)
(***************************************************************************)
C40_ChannelsRunConcurrently ==
    [][ /\ lastResp'.op = "send_notification"
        /\ EmailAttempted(notify')
        /\ SmsAttempted(notify')
        => /\ StartsAt(notify'.steps, SmsSteps) < ResolvesAt(notify'.steps, EmailSteps)
           /\ StartsAt(notify'.steps, EmailSteps) < ResolvesAt(notify'.steps, SmsSteps)
           /\ notify'.steps[Len(notify'.steps)] = "_create_notification_record"
           /\ ResolvesAt(notify'.steps, EmailSteps) < Len(notify'.steps)
           /\ ResolvesAt(notify'.steps, SmsSteps) < Len(notify'.steps)
      ]_vars

====
